---- MODULE Spec2Model ----
(***************************************************************************)
(* Scoring engines of the benchmark platform (src/scoring/engines).        *)
(*                                                                         *)
(* An engine instance is a record of its Python attributes.  Python lists  *)
(* are objects: the log buffers live in mem.lists and are referred to by   *)
(* index, so that two references to one list (self.logs and a result's     *)
(* logs) see each other's appends.  Every method is an operator            *)
(*    method(o, mem, args) -> [o, mem, ret, exc]                           *)
(* giving the object and the memory after the call, the value returned and *)
(* the exception raised (None when it returns normally).                   *)
(*                                                                         *)
(* Numbers: a metric value is an integer count of millionths (the engines  *)
(* round every reported value to 6 decimals); exact intermediate values    *)
(* are rationals [n, d].                                                   *)
(***************************************************************************)
EXTENDS Integers, Sequences, FiniteSets, TLC

VARIABLES engine,    \* the engine instance (attributes of self)
          mem,       \* the list objects, and a record of the score() call in progress
          outcomes,  \* what each call gave its caller, in call order
          argv,      \* the arguments of the function or method that is called directly
          db         \* the database rows: the competition, its submissions, their logs

vars == <<engine, mem, outcomes, argv, db>>

---------------------------------------------------------------------------
(* Bounds *)

MaxCalls == 2       \* score() calls on one instance
MaxId == 2          \* identifiers 1..MaxId in the classification tables

---------------------------------------------------------------------------
(* Optional values (x | None) *)

None == <<>>
Some(x) == <<x>>
Get(opt) == opt[1]

Range(s) == {s[i] : i \in DOMAIN s}

RECURSIVE SeqOfSet(_)
SeqOfSet(S) == IF S = {} THEN <<>>
               ELSE LET x == CHOOSE y \in S : TRUE IN <<x>> \o SeqOfSet(S \ {x})

RECURSIVE SumSeq(_)
SumSeq(s) == IF s = <<>> THEN 0 ELSE s[1] + SumSeq(Tail(s))

---------------------------------------------------------------------------
(* Rationals and rounding *)

Abs(x) == IF x < 0 THEN -x ELSE x
Max(a, b) == IF a >= b THEN a ELSE b
Min(a, b) == IF a <= b THEN a ELSE b

RECURSIVE Gcd(_, _)
Gcd(a, b) == IF b = 0 THEN a ELSE Gcd(b, a % b)

\* n / d, d # 0, in lowest terms with a positive denominator
Rat(n, d) == LET g == Gcd(Abs(n), Abs(d))
                 sg == IF d < 0 THEN -1 ELSE 1
             IN [n |-> sg * (n \div g), d |-> sg * (d \div g)]
RLe(a, b) == a.n * b.d <= b.n * a.d
RLt(a, b) == a.n * b.d < b.n * a.d
RMax(a, b) == IF RLe(b, a) THEN a ELSE b
RZero == [n |-> 0, d |-> 1]
RAdd(a, b) == Rat(a.n * b.d + b.n * a.d, a.d * b.d)
RMul(a, b) == Rat(a.n * b.n, a.d * b.d)
\* zero_division=0 of classification_report: x / 0 is reported as 0
RDiv0(n, d) == IF d = 0 THEN RZero ELSE Rat(n, d)

RECURSIVE RSum(_)
RSum(s) == IF s = <<>> THEN RZero ELSE RAdd(s[1], RSum(Tail(s)))

Million == 1000000

\* floor(x * 10^digits) and the remainder, by long division (x >= 0)
RECURSIVE LongDiv(_, _, _, _)
LongDiv(q, r, d, digits) ==
    IF digits = 0 THEN [q |-> q, r |-> r]
    ELSE LongDiv(10 * q + (10 * r) \div d, (10 * r) % d, d, digits - 1)
\* round(x, digits) of the rational x >= 0, in units of 10^-digits
Rounded(x, digits) ==
    LET l == LongDiv(x.n \div x.d, x.n % x.d, x.d, digits)
    IN IF 2 * l.r >= x.d THEN l.q + 1 ELSE l.q
\* round(x, 6) of the rational x, in millionths
round6(x) == Rounded(x, 6)
\* round(x, 4) of the rational x, as a rational
round4(x) == Rat(Rounded(x, 4), 10000)
\* round(v, 6) of a value that is already a number of millionths
round6m(v) == round6(Rat(v, Million))
\* f"{v:.4f}" of a number of millionths, and of a rational
fmt4(v) == ToString((2 * v + 100) \div 200)
fmt4r(x) == ToString(Rounded(x, 4))

---------------------------------------------------------------------------
(* Binary floating point (Python float, numpy float64).  A natural of any  *)
(* size is the sequence of its digits in base 2^15, least significant      *)
(* first, without high zeros; a double is m * 2^e with m odd (m = <<>> and *)
(* e = 0 for zero).  Only the non-negative doubles occur.                  *)

LimbBits == 15
Limb == 2 ^ LimbBits

RECURSIVE Limbs(_)
Limbs(n) == IF n = 0 THEN <<>> ELSE <<n % Limb>> \o Limbs(n \div Limb)

RECURSIVE BNat(_)
BNat(b) == IF b = <<>> THEN 0 ELSE b[1] + Limb * BNat(Tail(b))

RECURSIVE BTrim(_)
BTrim(b) == IF b # <<>> /\ b[Len(b)] = 0 THEN BTrim(SubSeq(b, 1, Len(b) - 1)) ELSE b

RECURSIVE BAddC(_, _, _)
BAddC(a, b, c) ==
    IF a = <<>> /\ b = <<>> THEN Limbs(c)
    ELSE LET Digit(x) == <<x % Limb>> \o BAddC(IF a = <<>> THEN a ELSE Tail(a),
                                               IF b = <<>> THEN b ELSE Tail(b),
                                               x \div Limb)
         IN Digit((IF a = <<>> THEN 0 ELSE a[1]) + (IF b = <<>> THEN 0 ELSE b[1]) + c)
BAdd(a, b) == BAddC(a, b, 0)

\* b * k + c for an integer 0 < k <= 2^15
RECURSIVE BMulC(_, _, _)
BMulC(b, k, c) ==
    IF b = <<>> THEN Limbs(c)
    ELSE LET Digit(x) == <<x % Limb>> \o BMulC(Tail(b), k, x \div Limb)
         IN Digit(b[1] * k + c)
BMul(b, k) == BTrim(BMulC(b, k, 0))

\* long division of b by an integer 0 < k <= 2^15 from the top digit, r the
\* remainder so far: the quotient (with high zeros) and the remainder
RECURSIVE BDivR(_, _, _)
BDivR(b, k, r) ==
    IF b = <<>> THEN [q |-> <<>>, r |-> r]
    ELSE LET Below(x) ==
                 LET rest == BDivR(SubSeq(b, 1, Len(b) - 1), k, x % k)
                 IN [q |-> Append(rest.q, x \div k), r |-> rest.r]
         IN Below(Limb * r + b[Len(b)])
BDiv(b, k) == BTrim(BDivR(b, k, 0).q)

\* b * 2^s
BShl(b, s) ==
    IF b = <<>> THEN <<>>
    ELSE [i \in 1..(s \div LimbBits) |-> 0] \o BMul(b, 2 ^ (s % LimbBits))

\* b \div 2^s, and whether b is no multiple of 2^s
BShr(b, s) ==
    LET w == Min(s \div LimbBits, Len(b))
        d == BDivR(SubSeq(b, w + 1, Len(b)), 2 ^ (s % LimbBits), 0)
    IN [q |-> BTrim(d.q), sticky |-> d.r # 0 \/ \E i \in 1..w : b[i] # 0]

RECURSIVE BitLength(_)
BitLength(n) == IF n = 0 THEN 0 ELSE 1 + BitLength(n \div 2)
\* the number of binary digits of b
BLen(b) == IF b = <<>> THEN 0 ELSE LimbBits * (Len(b) - 1) + BitLength(b[Len(b)])

\* a <= b
RECURSIVE BLeSame(_, _)
BLeSame(a, b) ==
    IF a = <<>> THEN TRUE
    ELSE IF a[Len(a)] # b[Len(b)] THEN a[Len(a)] < b[Len(b)]
    ELSE BLeSame(SubSeq(a, 1, Len(a) - 1), SubSeq(b, 1, Len(b) - 1))
BLe(a, b) == IF Len(a) # Len(b) THEN Len(a) < Len(b) ELSE BLeSame(a, b)

\* the integer nearest to b / 2^s, ties to even; sticky: the value is a
\* little more than b / 2^s
BNearest(b, s, sticky) ==
    IF s = 0 THEN b
    ELSE LET Halved(h, q) ==
                 IF h.q # <<>> /\ h.q[1] % 2 = 1
                    /\ (sticky \/ h.sticky \/ (q # <<>> /\ q[1] % 2 = 1))
                 THEN BAdd(q, <<1>>) ELSE q
             Half(h) == Halved(h, BDiv(h.q, 2))
         IN Half(BShr(b, s - 1))

Double(m, e) == [m |-> m, e |-> e]
F0 == Double(<<>>, 0)
F1 == Double(<<1>>, 0)

\* the double m * 2^e of a natural m of at most 53 binary digits
RECURSIVE Canon(_, _)
Canon(m, e) == IF m = <<>> THEN F0
               ELSE IF m[1] = 0 THEN Canon(Tail(m), e + LimbBits)
               ELSE IF m[1] % 2 = 0 THEN Canon(BDiv(m, 2), e + 1)
               ELSE Double(m, e)

MantissaBits == 53

\* the double nearest to m * 2^e (a little more when sticky, and then m has
\* more than 53 binary digits), ties to even
FRound(m, e, sticky) ==
    LET s == Max(BLen(m) - MantissaBits, 0)
    IN Canon(BNearest(m, s, sticky), e + s)

\* binary digits a quotient is computed to, beyond those of its dividend,
\* before it is rounded
GuardBits == 64

FQuotient(m, e, k) ==
    LET Divided(d, s) == FRound(BTrim(d.q), e - s, d.r # 0)
        Shifted(s) == Divided(BDivR(BShl(m, s), k, 0), s)
    IN IF m = <<>> THEN F0 ELSE Shifted(GuardBits + BitLength(k))

\* a / b of two integers a >= 0, b > 0
FOfRatio(a, b) == FQuotient(Limbs(a), 0, b)
\* x / k and x * k for a double x and an integer 0 < k <= 2^15
FDivSmall(x, k) == FQuotient(x.m, x.e, k)
FMulSmall(x, k) == FRound(BMul(x.m, k), x.e, FALSE)

FAdd(x, y) ==
    LET e == Min(x.e, y.e)
    IN FRound(BAdd(BShl(x.m, x.e - e), BShl(y.m, y.e - e)), e, FALSE)

\* a - b of two naturals a >= b
RECURSIVE BSubC(_, _, _)
BSubC(a, b, c) ==
    IF a = <<>> THEN <<>>
    ELSE LET Digit(x) == <<x % Limb>> \o BSubC(Tail(a), IF b = <<>> THEN b ELSE Tail(b),
                                               IF x < Limb THEN 1 ELSE 0)
         IN Digit(Limb + a[1] - (IF b = <<>> THEN 0 ELSE b[1]) - c)
\* x - y of two doubles x >= y
FSub(x, y) ==
    LET e == Min(x.e, y.e)
    IN FRound(BTrim(BSubC(BShl(x.m, x.e - e), BShl(y.m, y.e - e), 0)), e, FALSE)

FLe(x, y) ==
    LET e == Min(x.e, y.e)
    IN BLe(BShl(x.m, x.e - e), BShl(y.m, y.e - e))
FLt(x, y) == ~FLe(y, x)
\* max(a, b) of Python: b when b > a, else a
FMax(a, b) == IF FLt(a, b) THEN b ELSE a

\* the integer nearest to m * 2^e, ties to even
BRint(m, e) == IF e >= 0 THEN BNat(BShl(m, e)) ELSE BNat(BNearest(m, -e, FALSE))

\* np.round(x, 4), round(x, 6) of a numpy float: rint(x * 10^d) / 10^d, as the
\* integer rint(x * 10^d)
NpRound4(x) == LET Nearest(y) == BRint(y.m, y.e) IN Nearest(FMulSmall(x, 10000))
NpRound6(x) == LET Nearest(y) == BRint(y.m, y.e)
               IN Nearest(FRound(BMul(BMul(x.m, 1000), 1000), x.e, FALSE))
\* f"{x:.4f}": the decimal nearest to the exact value, as the integer of its digits
Formatted4(x) == BRint(BMul(x.m, 10000), x.e)

---------------------------------------------------------------------------
(* Tables (pandas DataFrame) and files *)

NaN == "NaN"            \* an empty cell as pd.read_csv gives it
MISSING == "__MISSING__"

\* non_numeric: the columns whose dtype is not numeric (a cell that is no number)
Table(columns, rows) == [columns |-> columns, rows |-> rows, non_numeric |-> {}]
WithText(df, columns) == [df EXCEPT !.non_numeric = columns]
File(readable, df) == [readable |-> readable, df |-> df]
Unreadable == File(FALSE, Table(<<>>, <<>>))

Msg(text, columns) == [text |-> text, columns |-> columns]
Line(level, text, args, call) ==
    [level |-> level, text |-> text, args |-> args, call |-> call]

Ret(o, m, ret, exc) == [o |-> o, mem |-> m, ret |-> ret, exc |-> exc]

ScoringResult(success, score, metrics, error_message, logs) ==
    [success |-> success, score |-> score, metrics |-> metrics,
     error_message |-> error_message, logs |-> logs]

\* a new list object holding `content`; its reference is Len(m.lists) + 1
NewList(m, content) == [m EXCEPT !.lists = Append(@, content)]
NewRef(m) == Len(m.lists) + 1

\* result.logs or []
LogsOrEmpty(m, logs) == IF logs = None THEN <<>> ELSE m.lists[Get(logs)]

---------------------------------------------------------------------------
(* BaseScoringEngine *)

\* __init__ of an engine: the attributes every engine class sets
BaseInit(engine_type, ground_truth_path, logsRef) ==
    [engine_type |-> engine_type,
     ground_truth_path |-> ground_truth_path,
     ground_truth_df |-> None,
     logs |-> logsRef,
     REQUIRED_COLUMNS |-> <<>>]

log(o, m, message, level, args) ==
    [m EXCEPT !.lists[o.logs] = Append(@, Line(level, message, args, m.call)),
              !.emitted = Append(@, Line(level, message, args, m.call))]

Base_load_ground_truth(o, m) ==
    IF o.ground_truth_path.readable
    THEN LET df == o.ground_truth_path.df
             o1 == [o EXCEPT !.ground_truth_df = Some(df)]
         IN Ret(o1, log(o1, m, "Loaded ground truth with {} rows", "INFO",
                        <<ToString(Len(df.rows))>>), TRUE, None)
    ELSE Ret(o, log(o, m, "Failed to load ground truth: {}", "ERROR", <<>>), FALSE, None)

load_prediction(o, m, prediction_path) ==
    IF prediction_path.readable
    THEN Ret(o, log(o, m, "Loaded prediction with {} rows", "INFO",
                    <<ToString(Len(prediction_path.df.rows))>>),
             Some(prediction_path.df), None)
    ELSE Ret(o, log(o, m, "Failed to load prediction: {}", "ERROR", <<>>), None, None)

MissingColumns_AllRequired(o, prediction_df) == Range(o.REQUIRED_COLUMNS)

MissingColumns(o, prediction_df) ==
    Range(o.REQUIRED_COLUMNS) \ Range(prediction_df.columns)

Base_validate_prediction_format(o, m, prediction_df) ==
    LET missing_columns == MissingColumns(o, prediction_df)
    IN IF missing_columns # {}
       THEN Ret(o, m, [is_valid |-> FALSE,
                       error_msg |-> Msg("Missing required columns", missing_columns)], None)
       ELSE Ret(o, m, [is_valid |-> TRUE, error_msg |-> Msg("", {})], None)

---------------------------------------------------------------------------
(* ClassificationScoringEngine *)

ClassificationInit(ground_truth_path, metric_type, metric_target_class, logsRef) ==
    BaseInit("classification", ground_truth_path, logsRef) @@
    [metric_type |-> metric_type,
     metric_target_class |-> metric_target_class,
     id_column |-> None,
     label_column |-> None]

Classification_load_ground_truth(o, m) ==
    LET Loaded(r) ==
            IF ~r.ret THEN r
            ELSE LET columns == Get(r.o.ground_truth_df).columns
                 IN IF Len(columns) < 2
                    THEN Ret(r.o, log(r.o, r.mem, "Ground truth must have at least 2 columns",
                                      "ERROR", <<>>), FALSE, None)
                    ELSE LET o1 == [r.o EXCEPT !.id_column = Some(columns[1]),
                                               !.label_column = Some(columns[2]),
                                               !.REQUIRED_COLUMNS =
                                                   <<columns[1], columns[2]>>]
                         IN Ret(o1, log(o1, r.mem,
                                        "Auto-detected columns: ID='{}', Label='{}'",
                                        "INFO", <<columns[1], columns[2]>>), TRUE, None)
    IN Loaded(Base_load_ground_truth(o, m))

HasDuplicates_Unchecked(df, col) == FALSE

\* prediction_df[col].duplicated().any()
HasDuplicates(df, col) ==
    \E i, j \in DOMAIN df.rows : i < j /\ df.rows[i][col] = df.rows[j][col]

Classification_validate_prediction_format(o, m, prediction_df) ==
    LET missing_columns == MissingColumns(o, prediction_df)
    IN IF missing_columns # {}
       THEN Ret(o, m, [is_valid |-> FALSE,
                       error_msg |-> Msg("Missing required columns", missing_columns)], None)
       ELSE IF o.id_column = None \/ Get(o.id_column) \notin Range(prediction_df.columns)
       THEN Ret(o, m, None, Some("KeyError"))          \* prediction_df[self.id_column]
       ELSE IF HasDuplicates(prediction_df, Get(o.id_column))
       THEN Ret(o, m, [is_valid |-> FALSE,
                       error_msg |-> Msg("Prediction contains duplicate {} values",
                                         {Get(o.id_column)})], None)
       ELSE Ret(o, m, [is_valid |-> TRUE, error_msg |-> Msg("", {})], None)

\* pd.merge(ground_truth_df, prediction_df, on=id, how="left"): one row per
\* (ground-truth row, matching prediction row), and one row with an empty
\* prediction for a ground-truth row that matches none
RECURSIVE MergeLeft(_, _, _, _)
MergeLeft(gtRows, predRows, id, label) ==
    IF gtRows = <<>> THEN <<>>
    ELSE LET g == gtRows[1]
             hits == SelectSeq(predRows, LAMBDA p : p[id] = g[id])
             mine == IF hits = <<>>
                     THEN <<[true |-> g[label], pred |-> NaN]>>
                     ELSE [i \in DOMAIN hits |-> [true |-> g[label], pred |-> hits[i][label]]]
         IN mine \o MergeLeft(Tail(gtRows), predRows, id, label)

\* sklearn classification_report(y_true, y_pred, output_dict=True, zero_division=0)
ClassRow(y_true, y_pred, c) ==
    LET idx == DOMAIN y_true
        tp == Cardinality({i \in idx : y_true[i] = c /\ y_pred[i] = c})
        fp == Cardinality({i \in idx : y_true[i] # c /\ y_pred[i] = c})
        fn == Cardinality({i \in idx : y_true[i] = c /\ y_pred[i] # c})
    IN [precision |-> RDiv0(tp, tp + fp),
        recall |-> RDiv0(tp, tp + fn),
        f1 |-> RDiv0(2 * tp, 2 * tp + fp + fn),
        support |-> tp + fn]

classification_report(y_true, y_pred) ==
    LET labels == Range(y_true) \cup Range(y_pred)
        n == Len(y_true)
        rows == [c \in labels |-> ClassRow(y_true, y_pred, c)]
        order == SeqOfSet(labels)
        macro(f) == RMul(RSum([i \in DOMAIN order |-> rows[order[i]][f]]),
                         RDiv0(1, Cardinality(labels)))
        weighted(f) == RMul(RSum([i \in DOMAIN order |->
                                   RMul(Rat(rows[order[i]].support, 1), rows[order[i]][f])]),
                            RDiv0(1, n))
    IN [classes |-> rows,
        accuracy |-> RDiv0(Cardinality({i \in DOMAIN y_true : y_true[i] = y_pred[i]}), n),
        macro_avg |-> [precision |-> macro("precision"), recall |-> macro("recall"),
                       f1 |-> macro("f1")],
        weighted_avg |-> [precision |-> weighted("precision"),
                          recall |-> weighted("recall"), f1 |-> weighted("f1")]]

\* the report, or {} (None here) when sklearn raises: a ground-truth label that is
\* an empty cell mixes a float with the string labels
Classification_generate_report(o, m, y_true, y_pred) ==
    IF NaN \in Range(y_true) \/ y_true = <<>>
    THEN Ret(o, log(o, m, "Failed to generate classification report: {}", "ERROR", <<>>),
             None, None)
    ELSE Ret(o, m, Some(classification_report(y_true, y_pred)), None)

Classification_extract_metrics(o, report, total_samples, missing_count) ==
    LET acc == round6(report.accuracy)
        cls == IF o.metric_target_class # None
                  /\ Get(o.metric_target_class) \in DOMAIN report.classes
               THEN report.classes[Get(o.metric_target_class)]
               ELSE [precision |-> RZero, recall |-> RZero, f1 |-> RZero, support |-> 0]
    IN [ACCURACY |-> acc,
        F1_MACRO |-> round6(report.macro_avg.f1),
        F1_MICRO |-> acc,
        F1_WEIGHTED |-> round6(report.weighted_avg.f1),
        PRECISION_MACRO |-> round6(report.macro_avg.precision),
        PRECISION_MICRO |-> acc,
        PRECISION_WEIGHTED |-> round6(report.weighted_avg.precision),
        RECALL_MACRO |-> round6(report.macro_avg.recall),
        RECALL_MICRO |-> acc,
        RECALL_WEIGHTED |-> round6(report.weighted_avg.recall),
        total_samples |-> total_samples,
        missing_predictions |-> missing_count,
        per_class_report |-> report,
        F1 |-> round6(report.macro_avg.f1),
        PRECISION |-> round6(report.macro_avg.precision),
        RECALL |-> round6(report.macro_avg.recall),
        CLASS_F1 |-> round6(cls.f1),
        CLASS_PRECISION |-> round6(cls.precision),
        CLASS_RECALL |-> round6(cls.recall)]

PrimaryKey_Accuracy(metrics, metric_type) == "ACCURACY"

\* metrics.get(self.metric_type, metrics["ACCURACY"])
PrimaryKey(metrics, metric_type) ==
    IF metric_type \in DOMAIN metrics THEN metric_type ELSE "ACCURACY"

Classification_calculate_score(o, m, prediction_df, ground_truth_df) ==
    LET Summarised(metrics, m2) ==
            LET m3 == log(o, m2, "Accuracy: {}", "INFO", <<fmt4(metrics.ACCURACY)>>)
                m4 == log(o, m3, "F1 (macro): {}", "INFO", <<fmt4(metrics.F1_MACRO)>>)
                m5 == log(o, m4, "F1 (weighted): {}", "INFO", <<fmt4(metrics.F1_WEIGHTED)>>)
            IN Ret(o,
                   IF o.metric_target_class # None
                   THEN log(o, m5, "Target Class '{}' F1: {}", "INFO",
                            <<Get(o.metric_target_class), fmt4(metrics.CLASS_F1)>>)
                   ELSE m5,
                   ScoringResult(TRUE,
                                 Some(round6m(metrics[PrimaryKey(metrics, o.metric_type)])),
                                 Some(metrics), None, Some(o.logs)), None)
        Reported(merged, missing_count, rep) ==
            IF rep.ret = None
            THEN Ret(o, rep.mem,
                     ScoringResult(FALSE, None, None,
                                   Some(Msg("Failed to generate report", {})), None), None)
            ELSE Summarised(Classification_extract_metrics(o, Get(rep.ret), Len(merged),
                                                           missing_count),
                            rep.mem)
        Counted(merged, missing_count) ==
            Reported(merged, missing_count,
                     Classification_generate_report(
                         o,
                         IF missing_count > 0
                         THEN log(o, m, "Warning: {} items have no prediction", "WARNING",
                                  <<ToString(missing_count)>>)
                         ELSE m,
                         [i \in DOMAIN merged |-> merged[i].true],
                         [i \in DOMAIN merged |->
                             IF merged[i].pred = NaN THEN MISSING ELSE merged[i].pred]))
        Merged(merged) ==
            Counted(merged, Len(SelectSeq(merged, LAMBDA r : r.pred = NaN)))
    IN IF o.id_column = None \/ o.label_column = None
       THEN Ret(o, m, None, Some("KeyError"))
       ELSE Merged(MergeLeft(ground_truth_df.rows, prediction_df.rows,
                             Get(o.id_column), Get(o.label_column)))

---------------------------------------------------------------------------
(* DetectionScoringEngine.  Coordinates are integers, a confidence is a    *)
(* number of hundredths.                                                   *)

calculate_iou_Unclamped(box1, box2) ==
    LET intersection == (Min(box1[3], box2[3]) - Max(box1[1], box2[1]))
                          * (Min(box1[4], box2[4]) - Max(box1[2], box2[2]))
        area1 == (box1[3] - box1[1]) * (box1[4] - box1[2])
        area2 == (box2[3] - box2[1]) * (box2[4] - box2[2])
    IN IF area1 + area2 - intersection = 0 THEN RZero
       ELSE Rat(intersection, area1 + area2 - intersection)

calculate_iou_SumOfAreas(box1, box2) ==
    LET area1 == (box1[3] - box1[1]) * (box1[4] - box1[2])
        area2 == (box2[3] - box2[1]) * (box2[4] - box2[2])
        intersection == Max(0, Min(box1[3], box2[3]) - Max(box1[1], box2[1]))
                          * Max(0, Min(box1[4], box2[4]) - Max(box1[2], box2[2]))
    IN IF area1 + area2 = 0 THEN RZero ELSE Rat(intersection, area1 + area2)

calculate_iou(box1, box2) ==
    LET x1 == Max(box1[1], box2[1])
        y1 == Max(box1[2], box2[2])
        x2 == Min(box1[3], box2[3])
        y2 == Min(box1[4], box2[4])
        intersection == Max(0, x2 - x1) * Max(0, y2 - y1)
        area1 == (box1[3] - box1[1]) * (box1[4] - box1[2])
        area2 == (box2[3] - box2[1]) * (box2[4] - box2[2])
        union == area1 + area2 - intersection
    IN IF union = 0 THEN RZero ELSE Rat(intersection, union)

\* np.linspace(0, 1, 11): k * step with step = 1 / 10, the last point being 1
Linspace == [k \in 1..11 |-> IF k = 11 THEN F1 ELSE FMulSmall(FOfRatio(1, 10), k - 1)]

\* r >= t for a recall r and the k-th point t (k from 0)
AtLeastPoint(r, k) == FLe(Linspace[k + 1], r)

\* precision[i] = max(precision[i], precision[i + 1]), from the right
RECURSIVE Envelope(_)
Envelope(p) ==
    IF Len(p) <= 1 THEN p
    ELSE LET Before(rest) == <<FMax(p[1], rest[1])>> \o rest
         IN Before(Envelope(Tail(p)))

\* p = max(p, pr) over the positions S, from p = 0.0
RECURSIVE FMaxOver(_, _)
FMaxOver(S, f) ==
    IF S = {} THEN F0
    ELSE LET i == CHOOSE x \in S : \A y \in S : x >= y
         IN FMax(FMaxOver(S \ {i}, f), f[i])

\* ap after each of the first k points (ap += p / 11), from ap = 0.0
RECURSIVE ApSums(_, _, _)
ApSums(precision, recall, k) ==
    IF k = 0 THEN <<F0>>
    ELSE LET Added(s) ==
                 Append(s, FAdd(s[Len(s)],
                                FDivSmall(FMaxOver({i \in DOMAIN recall :
                                                       AtLeastPoint(recall[i], k - 1)},
                                                   precision), 11)))
         IN Added(ApSums(precision, recall, k - 1))

calculate_ap(precision, recall) ==
    IF Len(precision) = 0 \/ Len(recall) = 0 THEN F0
    ELSE ApSums(Envelope(<<F0>> \o precision \o <<F0>>),
                <<F0>> \o recall \o <<F1>>, 11)[12]

\* class_preds.sort_values("confidence", ascending=False): rows of equal
\* confidence keep their order
RECURSIVE SortByConfidence(_)
SortByConfidence(rows) ==
    IF rows = <<>> THEN <<>>
    ELSE LET best == CHOOSE i \in DOMAIN rows :
                        /\ \A j \in DOMAIN rows : rows[j].confidence <= rows[i].confidence
                        /\ \A j \in 1..(i - 1) : rows[j].confidence < rows[i].confidence
         IN <<rows[best]>> \o
            SortByConfidence([j \in 1..(Len(rows) - 1) |->
                                 IF j < best THEN rows[j] ELSE rows[j + 1]])

Box(o, row) == <<row[Get(o.xmin_col)], row[Get(o.ymin_col)],
                 row[Get(o.xmax_col)], row[Get(o.ymax_col)]>>

BestGt_FirstBox(o, pred, gts, matched) ==
    LET cand == {g \in DOMAIN gts :
                    /\ gts[g][Get(o.id_col)] = pred[Get(o.id_col)]
                    /\ g \notin matched
                    /\ RLt(RZero, calculate_iou(Box(o, pred), Box(o, gts[g])))}
    IN IF cand = {} THEN 0 ELSE CHOOSE g \in cand : \A h \in cand : g <= h

BestGt_AnyBox(o, pred, gts, matched) ==
    LET cand == {g \in DOMAIN gts :
                    /\ gts[g][Get(o.id_col)] = pred[Get(o.id_col)]
                    /\ RLt(RZero, calculate_iou(Box(o, pred), Box(o, gts[g])))}
    IN IF cand = {} THEN 0
       ELSE CHOOSE g \in cand :
              \A h \in cand :
                 LET ig == calculate_iou(Box(o, pred), Box(o, gts[g]))
                     ih == calculate_iou(Box(o, pred), Box(o, gts[h]))
                 IN RLt(ih, ig) \/ (ih = ig /\ g <= h)

\* the unmatched ground-truth box of the prediction's image with the highest
\* IoU (the first of them in row order), 0 when no IoU is above 0
BestGt(o, pred, gts, matched) ==
    LET cand == {g \in DOMAIN gts :
                    /\ gts[g][Get(o.id_col)] = pred[Get(o.id_col)]
                    /\ g \notin matched
                    /\ RLt(RZero, calculate_iou(Box(o, pred), Box(o, gts[g])))}
    IN IF cand = {} THEN 0
       ELSE CHOOSE g \in cand :
              \A h \in cand :
                 LET ig == calculate_iou(Box(o, pred), Box(o, gts[g]))
                     ih == calculate_iou(Box(o, pred), Box(o, gts[h]))
                 IN RLt(ih, ig) \/ (ih = ig /\ g <= h)

\* the loop over the predictions in confidence order: the lists tp and fp, and
\* marks, the ground-truth boxes in the order they were marked matched
RECURSIVE MatchLoop(_, _, _, _, _, _, _)
MatchLoop(o, preds, gts, threshold, marks, tp, fp) ==
    IF preds = <<>> THEN [tp |-> tp, fp |-> fp, marks |-> marks]
    ELSE LET Judged(best, hit) ==
                 MatchLoop(o, Tail(preds), gts, threshold,
                           IF hit THEN Append(marks, best) ELSE marks,
                           Append(tp, IF hit THEN 1 ELSE 0),
                           Append(fp, IF hit THEN 0 ELSE 1))
             Best(best, iou) ==
                 Judged(best, best # 0 /\ FLe(threshold, FOfRatio(iou.n, iou.d)))
             Searched(best) ==
                 Best(best, IF best = 0 THEN RZero
                            ELSE calculate_iou(Box(o, preds[1]), Box(o, gts[best])))
         IN Searched(BestGt(o, preds[1], gts, Range(marks)))

RECURSIVE CumSum(_)
CumSum(s) == IF s = <<>> THEN <<>>
             ELSE LET c == CumSum(SubSeq(s, 1, Len(s) - 1))
                  IN Append(c, (IF c = <<>> THEN 0 ELSE c[Len(c)]) + s[Len(s)])

\* the rows of a class, and the matching loop over them (detection.py 172-230)
ClassRows(o, df, class_label) ==
    SelectSeq(df.rows, LAMBDA r : r[Get(o.class_col)] = class_label)
ClassMatches(o, pred_df, gt_df, class_label, iou_threshold) ==
    MatchLoop(o, SortByConfidence(ClassRows(o, pred_df, class_label)),
              ClassRows(o, gt_df, class_label), iou_threshold, <<>>, <<>>, <<>>)

Detection_calculate_ap_per_class(o, pred_df, gt_df, class_label, iou_threshold) ==
    LET Curve(tp_cumsum, fp_cumsum, total_gt) ==
            calculate_ap([i \in DOMAIN tp_cumsum |->
                             FOfRatio(tp_cumsum[i], tp_cumsum[i] + fp_cumsum[i])],
                         [i \in DOMAIN tp_cumsum |-> FOfRatio(tp_cumsum[i], total_gt)])
        Matched(l, total_gt) == Curve(CumSum(l.tp), CumSum(l.fp), total_gt)
    IN IF Len(ClassRows(o, gt_df, class_label)) = 0
          \/ Len(ClassRows(o, pred_df, class_label)) = 0
       THEN F0
       ELSE Matched(ClassMatches(o, pred_df, gt_df, class_label, iou_threshold),
                    Len(ClassRows(o, gt_df, class_label)))

DetectionInit(ground_truth_path, metric_type, logsRef) ==
    BaseInit("detection", ground_truth_path, logsRef) @@
    [metric_type |-> metric_type,
     id_col |-> None, class_col |-> None,
     xmin_col |-> None, ymin_col |-> None, xmax_col |-> None, ymax_col |-> None]

Detection_load_ground_truth(o, m) ==
    LET Loaded(r) ==
            IF ~r.ret THEN r
            ELSE LET columns == Get(r.o.ground_truth_df).columns
                 IN IF Len(columns) < 6
                    THEN Ret(r.o, log(r.o, r.mem,
                                      "Detection ground truth must have at least 6 columns",
                                      "ERROR", <<>>), FALSE, None)
                    ELSE LET o1 == [r.o EXCEPT !.id_col = Some(columns[1]),
                                               !.class_col = Some(columns[2]),
                                               !.xmin_col = Some(columns[3]),
                                               !.ymin_col = Some(columns[4]),
                                               !.xmax_col = Some(columns[5]),
                                               !.ymax_col = Some(columns[6]),
                                               !.REQUIRED_COLUMNS =
                                                   <<columns[1], columns[2], "confidence",
                                                     columns[3], columns[4], columns[5],
                                                     columns[6]>>]
                         IN Ret(o1, log(o1, r.mem,
                                        "Auto-detected columns: ID='{}', Class='{}', BBox={}",
                                        "INFO", SubSeq(columns, 1, 6)), TRUE, None)
    IN Loaded(Base_load_ground_truth(o, m))

\* pd.api.types.is_numeric_dtype(df[col]); a table without rows has object columns
is_numeric_dtype(df, col) == col \notin df.non_numeric /\ df.rows # <<>>

Detection_validate_prediction_format(o, m, prediction_df) ==
    LET missing_columns == MissingColumns(o, prediction_df)
        cols == <<o.xmin_col, o.ymin_col, o.xmax_col, o.ymax_col, Some("confidence")>>
        absent(k) == cols[k] = None \/ Get(cols[k]) \notin Range(prediction_df.columns)
        bad == {k \in DOMAIN cols : absent(k) \/ ~is_numeric_dtype(prediction_df, Get(cols[k]))}
    IN IF missing_columns # {}
       THEN Ret(o, m, [is_valid |-> FALSE,
                       error_msg |-> Msg("Missing required columns", missing_columns)], None)
       ELSE IF bad # {}
       THEN LET k == CHOOSE x \in bad : \A y \in bad : x <= y
            IN IF absent(k) THEN Ret(o, m, None, Some("KeyError"))
               ELSE Ret(o, m, [is_valid |-> FALSE,
                               error_msg |-> Msg("Column '{}' must be numeric",
                                                 {Get(cols[k])})], None)
       ELSE IF \E i \in DOMAIN prediction_df.rows :
                  prediction_df.rows[i].confidence < 0 \/ prediction_df.rows[i].confidence > 100
       THEN Ret(o, m, [is_valid |-> FALSE,
                       error_msg |-> Msg("Confidence values must be between 0 and 1", {})],
                None)
       ELSE Ret(o, m, [is_valid |-> TRUE, error_msg |-> Msg("", {})], None)

RMean(s) == IF s = <<>> THEN RZero ELSE RMul(RSum(s), Rat(1, Len(s)))

\* the sums 0.0 + a[1] + ... + a[k], in order
RECURSIVE FSums(_)
FSums(a) ==
    IF a = <<>> THEN <<F0>>
    ELSE LET Added(s) == Append(s, FAdd(s[Len(s)], a[Len(a)]))
         IN Added(FSums(SubSeq(a, 1, Len(a) - 1)))
FSum(a) == FSums(a)[Len(a) + 1]

\* np.add.reduce of at most 128 doubles: in order when there are fewer than 8,
\* else 8 running sums over the blocks of 8, paired, and then the rest in order
PairwiseSum(a) ==
    LET blocks == Len(a) \div 8
        r == [j \in 1..8 |-> FSum([b \in 1..blocks |-> a[8 * (b - 1) + j]])]
    IN IF Len(a) < 8 THEN FSum(a)
       ELSE FSum(<<FAdd(FAdd(FAdd(r[1], r[2]), FAdd(r[3], r[4])),
                        FAdd(FAdd(r[5], r[6]), FAdd(r[7], r[8])))>>
                 \o SubSeq(a, 8 * blocks + 1, Len(a)))

\* np.mean of a list of doubles
FMean(a) == IF a = <<>> THEN F0 ELSE FDivSmall(PairwiseSum(a), Len(a))

\* np.arange(0.5, 1.0, 0.05): start + i * delta with delta = (start + step) - start
ArangeDelta == FSub(FAdd(FOfRatio(1, 2), FOfRatio(1, 20)), FOfRatio(1, 2))
IouThresholds == [k \in 1..10 |-> FAdd(FOfRatio(1, 2), FMulSmall(ArangeDelta, k - 1))]

Detection_calculate_score(o, m, prediction_df, ground_truth_df) ==
    LET counts(all_classes) ==
            [num_classes |-> Cardinality(all_classes),
             num_predictions |-> Len(prediction_df.rows),
             num_ground_truth |-> Len(ground_truth_df.rows)]
        Averaged(all_classes, m1, mAP) ==
            Ret(o, log(o, m1, "mAP@[0.5:0.95]: {}", "INFO", <<ToString(Formatted4(mAP))>>),
                ScoringResult(TRUE, Some(NpRound6(mAP)),
                              Some([mAP_50_95 |-> NpRound6(mAP)] @@ counts(all_classes)),
                              None, Some(o.logs)), None)
        Averaged50(all_classes, m1, class_aps, mAP) ==
            Ret(o, log(o, m1, "mAP@0.5: {}", "INFO", <<ToString(Formatted4(mAP))>>),
                ScoringResult(TRUE, Some(NpRound6(mAP)),
                              Some([mAP_50 |-> NpRound6(mAP),
                                    per_class_ap |-> [c \in all_classes |->
                                                         Rat(class_aps[c], 10000)]]
                                   @@ counts(all_classes)),
                              None, Some(o.logs)), None)
        PerClass(all_classes, classes, m1, class_aps) ==
            Averaged50(all_classes, m1, class_aps,
                       FMean([c \in DOMAIN classes |->
                                 FOfRatio(class_aps[classes[c]], 10000)]))
        Classes(all_classes, classes, m1) ==
            IF o.metric_type = "MAP_50_95"
            THEN Averaged(all_classes, m1,
                          FMean([t \in DOMAIN IouThresholds |->
                                    FMean([c \in DOMAIN classes |->
                                        Detection_calculate_ap_per_class(
                                            o, prediction_df, ground_truth_df, classes[c],
                                            IouThresholds[t])])]))
            ELSE PerClass(all_classes, classes, m1,
                          [c \in all_classes |->
                              NpRound4(Detection_calculate_ap_per_class(
                                           o, prediction_df, ground_truth_df, c,
                                           FOfRatio(1, 2)))])
        \* subtracting the coordinates of a ground-truth box that is text raises
        text == \E c \in {o.xmin_col, o.ymin_col, o.xmax_col, o.ymax_col} :
                    Get(c) \in ground_truth_df.non_numeric
        compared == \E i \in DOMAIN ground_truth_df.rows, j \in DOMAIN prediction_df.rows :
                        /\ ground_truth_df.rows[i][Get(o.class_col)]
                               = prediction_df.rows[j][Get(o.class_col)]
                        /\ ground_truth_df.rows[i][Get(o.id_col)]
                               = prediction_df.rows[j][Get(o.id_col)]
        Logged(all_classes, m1) ==
            IF text /\ compared THEN Ret(o, m1, None, Some("TypeError"))
            ELSE Classes(all_classes, SeqOfSet(all_classes), m1)
        Counted(all_classes, pred_classes) ==
            Logged(all_classes,
                   log(o, m, "GT classes: {}, Pred classes: {}", "INFO",
                       <<ToString(Cardinality(all_classes)),
                         ToString(Cardinality(pred_classes))>>))
    IN IF o.class_col = None THEN Ret(o, m, None, Some("KeyError"))
       ELSE Counted({ground_truth_df.rows[i][Get(o.class_col)] :
                        i \in DOMAIN ground_truth_df.rows},
                    {prediction_df.rows[i][Get(o.class_col)] :
                        i \in DOMAIN prediction_df.rows})

---------------------------------------------------------------------------
(* SegmentationScoringEngine.  An RLE cell is [kind, tokens]: kind "nan"   *)
(* (empty cell), "text" (tokens: the integers of the string), "malformed"  *)
(* (a token that is no integer) or "number" (the cell was read as a        *)
(* number).  A mask is the row-major sequence of its pixels.               *)

Rle(kind, tokens) == [kind |-> kind, tokens |-> tokens]

Zeros(n) == [i \in 1..n |-> 0]

SetSlice_OpenEnd(mask, start, stop) ==
    LET n == Len(mask)
        e == IF stop < 0 THEN Max(0, stop + n) ELSE Min(stop, n)
    IN [i \in 1..n |-> IF start < i /\ i < e THEN 1 ELSE mask[i]]

\* mask_flat[start : stop] = 1, a Python slice with start >= 0
SetSlice(mask, start, stop) ==
    LET n == Len(mask)
        e == IF stop < 0 THEN Max(0, stop + n) ELSE Min(stop, n)
    IN [i \in 1..n |-> IF start < i /\ i <= e THEN 1 ELSE mask[i]]

RECURSIVE DecodePairs(_, _, _)
DecodePairs(tokens, mask, size) ==
    IF tokens = <<>> THEN mask
    ELSE LET start == tokens[1] - 1
             length == tokens[2]
         IN DecodePairs(SubSeq(tokens, 3, Len(tokens)),
                        IF start >= 0 /\ start + length <= size
                        THEN SetSlice(mask, start, start + length) ELSE mask,
                        size)

rle_decode(rle, height, width) ==
    IF rle.kind = "nan" \/ rle.kind = "malformed" THEN Zeros(height * width)
    ELSE IF rle.tokens = <<>> \/ rle.tokens = <<0>> THEN Zeros(height * width)
    ELSE IF Len(rle.tokens) % 2 # 0 THEN Zeros(height * width)
    ELSE DecodePairs(rle.tokens, Zeros(height * width), height * width)

\* the runs of 1 in flat from index i on (0-based), as start/length tokens
RECURSIVE EncodeFrom(_, _)
EncodeFrom(flat, i) ==
    IF i >= Len(flat) THEN <<>>
    ELSE IF flat[i + 1] = 1
    THEN LET stop == CHOOSE j \in (i + 1)..Len(flat) :
                        /\ \A k \in (i + 1)..j : flat[k] = 1
                        /\ (j = Len(flat) \/ flat[j + 1] # 1)
         IN <<i + 1, stop - i>> \o EncodeFrom(flat, stop)
    ELSE EncodeFrom(flat, i + 1)

\* A string is the sequence of its characters.
DigitChars == <<"0", "1", "2", "3", "4", "5", "6", "7", "8", "9">>

\* str(n), n >= 0
RECURSIVE str(_)
str(n) == IF n < 10 THEN <<DigitChars[n + 1]>>
          ELSE str(n \div 10) \o <<DigitChars[(n % 10) + 1]>>

\* " ".join(words)
RECURSIVE JoinSpace(_)
JoinSpace(words) ==
    IF words = <<>> THEN <<>>
    ELSE IF Len(words) = 1 THEN words[1]
    ELSE words[1] \o <<" ">> \o JoinSpace(Tail(words))

rle_encode(mask) == JoinSpace([i \in DOMAIN EncodeFrom(mask, 0) |-> str(EncodeFrom(mask, 0)[i])])

\* rle_string.split(): the maximal runs of characters that are no blanks;
\* word is the run read so far
RECURSIVE Split(_, _)
Split(chars, word) ==
    IF chars = <<>> THEN (IF word = <<>> THEN <<>> ELSE <<word>>)
    ELSE IF chars[1] = " "
    THEN (IF word = <<>> THEN <<>> ELSE <<word>>) \o Split(Tail(chars), <<>>)
    ELSE Split(Tail(chars), Append(word, chars[1]))

IsDigits(word) == word # <<>> /\ \A i \in DOMAIN word : \E d \in DOMAIN DigitChars : DigitChars[d] = word[i]

\* int(word) for a word of digits
RECURSIVE int(_)
int(word) ==
    IF word = <<>> THEN 0
    ELSE 10 * int(SubSeq(word, 1, Len(word) - 1))
           + (CHOOSE d \in 0..9 : DigitChars[d + 1] = word[Len(word)])

\* what rle_decode sees of a string of digits, blanks and other characters:
\* the integers of its words, or that a word is no integer
StrCell(rle_string) ==
    IF \A i \in DOMAIN Split(rle_string, <<>>) : IsDigits(Split(rle_string, <<>>)[i])
    THEN Rle("text", [i \in DOMAIN Split(rle_string, <<>>) |-> int(Split(rle_string, <<>>)[i])])
    ELSE Rle("malformed", <<>>)

calculate_mask_iou_EmptyIsZero(mask1, mask2) ==
    LET intersection == Cardinality({i \in DOMAIN mask1 : mask1[i] # 0 /\ mask2[i] # 0})
        union == Cardinality({i \in DOMAIN mask1 : mask1[i] # 0 \/ mask2[i] # 0})
    IN IF union = 0 THEN RZero ELSE Rat(intersection, union)

calculate_mask_iou(mask1, mask2) ==
    LET intersection == Cardinality({i \in DOMAIN mask1 : mask1[i] # 0 /\ mask2[i] # 0})
        union == Cardinality({i \in DOMAIN mask1 : mask1[i] # 0 \/ mask2[i] # 0})
    IN IF union = 0
       THEN (IF intersection = 0 THEN Rat(1, 1) ELSE RZero)
       ELSE Rat(intersection, union)

SegmentationInit(ground_truth_path, metric_type, logsRef) ==
    BaseInit("segmentation", ground_truth_path, logsRef) @@
    [metric_type |-> metric_type,
     image_dimensions |-> <<>>,      \* the dict, as a sequence of [key, value]
     id_col |-> None, class_col |-> None, rle_col |-> None,
     height_col |-> None, width_col |-> None]

\* d[key] = value of a dict kept as a sequence of entries
DictSet(d, key, value) ==
    IF \E i \in DOMAIN d : d[i].key = key
    THEN [i \in DOMAIN d |-> IF d[i].key = key THEN [key |-> key, value |-> value] ELSE d[i]]
    ELSE Append(d, [key |-> key, value |-> value])
DictHas(d, key) == \E i \in DOMAIN d : d[i].key = key
DictGet(d, key) == d[CHOOSE i \in DOMAIN d : d[i].key = key].value

RECURSIVE CacheDimensions(_, _, _)
CacheDimensions(o, rows, dims) ==
    IF rows = <<>> THEN dims
    ELSE CacheDimensions(o, Tail(rows),
                         DictSet(dims, rows[1][Get(o.id_col)],
                                 <<rows[1][Get(o.height_col)], rows[1][Get(o.width_col)]>>))

Segmentation_load_ground_truth(o, m) ==
    LET Detected(df, columns, o1, m1) ==
            \* int(row[height]) of a cell that is no number raises
            IF df.rows # <<>> /\ {columns[4], columns[5]} \cap df.non_numeric # {}
            THEN Ret(o1, m1, None, Some("ValueError"))
            ELSE Ret([o1 EXCEPT !.image_dimensions =
                          CacheDimensions(o1, df.rows, o1.image_dimensions)],
                     m1, TRUE, None)
        Columns(r, df, columns, o1) ==
            Detected(df, columns, o1,
                     log(o1, r.mem,
                         "Auto-detected columns: ID='{}', Class='{}', RLE='{}', H='{}', W='{}'",
                         "INFO", SubSeq(columns, 1, 5)))
        Loaded(r) ==
            IF ~r.ret THEN r
            ELSE LET df == Get(r.o.ground_truth_df)
                     columns == df.columns
                 IN IF Len(columns) < 5
                    THEN Ret(r.o, log(r.o, r.mem,
                                      "Segmentation ground truth must have at least 5 columns",
                                      "ERROR", <<>>), FALSE, None)
                    ELSE Columns(r, df, columns,
                                 [r.o EXCEPT !.id_col = Some(columns[1]),
                                             !.class_col = Some(columns[2]),
                                             !.rle_col = Some(columns[3]),
                                             !.height_col = Some(columns[4]),
                                             !.width_col = Some(columns[5]),
                                             !.REQUIRED_COLUMNS =
                                                 <<columns[1], columns[2], columns[3]>>])
    IN Loaded(Base_load_ground_truth(o, m))

Segmentation_validate_prediction_format(o, m, prediction_df) ==
    LET missing_columns == MissingColumns(o, prediction_df)
    IN IF missing_columns # {}
       THEN Ret(o, m, [is_valid |-> FALSE,
                       error_msg |-> Msg("Missing required columns", missing_columns)], None)
       ELSE Ret(o, m, [is_valid |-> TRUE, error_msg |-> Msg("", {})], None)

PredLookup_AnyImage(o, class_pred, image_id) ==
    IF class_pred = <<>> THEN None ELSE Some(class_pred[Len(class_pred)][Get(o.rle_col)])

\* pred_lookup[(id, class)] of the class's prediction rows: the last row wins
PredLookup(o, class_pred, image_id) ==
    LET hits == SelectSeq(class_pred, LAMBDA r : r[Get(o.id_col)] = image_id)
    IN IF hits = <<>> THEN None ELSE Some(hits[Len(hits)][Get(o.rle_col)])

\* the IoU of one ground-truth row of a class
RowIou(o, gt_row, class_pred) ==
    LET Masks(dims, found) ==
            calculate_mask_iou(rle_decode(gt_row[Get(o.rle_col)], dims[1], dims[2]),
                               IF found # None
                               THEN rle_decode(Get(found), dims[1], dims[2])
                               ELSE Zeros(dims[1] * dims[2]))
    IN Masks(DictGet(o.image_dimensions, gt_row[Get(o.id_col)]),
             PredLookup(o, class_pred, gt_row[Get(o.id_col)]))

\* the ground-truth rows of a class whose image has cached dimensions
KnownRows(o, ground_truth_df, c) ==
    SelectSeq(ground_truth_df.rows,
              LAMBDA r : r[Get(o.class_col)] = c
                         /\ DictHas(o.image_dimensions, r[Get(o.id_col)]))

\* the RLE cells that calculate_score decodes for a class
DecodedCells(o, known, class_pred) ==
    {known[i][Get(o.rle_col)] : i \in DOMAIN known} \cup
    {Get(PredLookup(o, class_pred, known[i][Get(o.id_col)])) :
        i \in {j \in DOMAIN known :
                  PredLookup(o, class_pred, known[j][Get(o.id_col)]) # None}}

\* "Warning: No dimensions for image ..." for each of the rows
RECURSIVE WarnNoDimensions(_, _, _)
WarnNoDimensions(o, m, rows) ==
    IF rows = <<>> THEN m
    ELSE WarnNoDimensions(o, log(o, m, "Warning: No dimensions for image {}", "WARNING",
                                 <<ToString(rows[1][Get(o.id_col)])>>),
                          Tail(rows))

Segmentation_calculate_score(o, m, prediction_df, ground_truth_df) ==
    LET class_pred(c) == SelectSeq(prediction_df.rows, LAMBDA r : r[Get(o.class_col)] = c)
        ClassIou(known, preds) ==
            RMean([i \in DOMAIN known |-> RowIou(o, known[i], preds)])
        Averaged(all_classes, m2, class_ious, mIoU) ==
            Ret(o, log(o, m2, "mIoU: {}", "INFO", <<fmt4r(mIoU)>>),
                ScoringResult(TRUE, Some(round6(mIoU)),
                              Some([MIOU |-> round6(mIoU),
                                    per_class_iou |-> [c \in all_classes |->
                                                          round4(class_ious[c])],
                                    num_classes |-> Cardinality(all_classes),
                                    num_gt_masks |-> Len(ground_truth_df.rows),
                                    num_pred_masks |-> Len(prediction_df.rows)]),
                              None, Some(o.logs)), None)
        PerClass(all_classes, classes, m2, class_ious) ==
            Averaged(all_classes, m2, class_ious,
                     RMean([c \in DOMAIN classes |-> class_ious[classes[c]]]))
        Warned(all_classes, m2) ==
            \* rle_string.strip() of a cell read as a number raises
            IF \E c \in all_classes :
                  \E x \in DecodedCells(o, KnownRows(o, ground_truth_df, c), class_pred(c)) :
                     x.kind = "number"
            THEN Ret(o, m2, None, Some("AttributeError"))
            ELSE PerClass(all_classes, SeqOfSet(all_classes), m2,
                          [c \in all_classes |->
                              ClassIou(KnownRows(o, ground_truth_df, c), class_pred(c))])
        Classes(all_classes) ==
            Warned(all_classes,
                   WarnNoDimensions(
                       o,
                       log(o, m, "Number of classes: {}", "INFO",
                           <<ToString(Cardinality(all_classes))>>),
                       SelectSeq(ground_truth_df.rows,
                                 LAMBDA r : ~DictHas(o.image_dimensions, r[Get(o.id_col)]))))
    IN IF o.class_col = None THEN Ret(o, m, None, Some("KeyError"))
       ELSE Classes({ground_truth_df.rows[i][Get(o.class_col)] :
                        i \in DOMAIN ground_truth_df.rows})

---------------------------------------------------------------------------
(* The operator's scoring script (src/examples, src/tests/test_custom_scoring.py) *)
(* is an input of the custom engine, described by what it does:                   *)
(*   exists, body_raises      the file is there; executing the module raises      *)
(*   has_class, has_function  it defines CustomScorer / calculate_score           *)
(*   cls   CustomScorer, a subclass of BaseScoringEngine:                         *)
(*           ctor_raises, REQUIRED_COLUMNS, load_raises, validate_raises,         *)
(*           calc: what its calculate_score does                                  *)
(*   fn    calculate_score: accepts_kwargs, uses_logger and what it returns       *)
(* A returned value is [kind, success, score, metrics, error_message, logs]       *)
(* with kind in "raise", "ScoringResult", "number", "dict", "other".              *)

Returned(kind, success, score, metrics, error_message, logs) ==
    [kind |-> kind, success |-> success, score |-> score, metrics |-> metrics,
     error_message |-> error_message, logs |-> logs]

\* CustomScorer(ground_truth_path): BaseScoringEngine.__init__ and the class attributes
OperatorInit(script, ground_truth_path, logsRef) ==
    [BaseInit("operator", ground_truth_path, logsRef)
       EXCEPT !.REQUIRED_COLUMNS = script.cls.REQUIRED_COLUMNS]

Operator_load_ground_truth(script, o, m) ==
    IF script.cls.load_raises THEN Ret(o, m, None, Some(script.cls.raised))
    ELSE Base_load_ground_truth(o, m)

Operator_validate_prediction_format(script, o, m, prediction_df) ==
    IF script.cls.validate_raises THEN Ret(o, m, None, Some(script.cls.raised))
    ELSE Base_validate_prediction_format(o, m, prediction_df)

\* CustomScorer.calculate_score: logs through self.log, then returns
\* ScoringResult(..., logs=self.logs) as the engines of this repository do,
\* returns something else, or raises
Operator_calculate_score(script, o, m, prediction_df, ground_truth_df) ==
    LET b == script.cls.calc
        m1 == log(o, m, "CustomScorer scoring", "INFO", <<>>)
    IN CASE b.kind = "raise" -> Ret(o, m1, None, Some("OperatorError"))
         [] b.kind = "ScoringResult" ->
              Ret(o, m1, [kind |-> "ScoringResult",
                          value |-> ScoringResult(Get(b.success), b.score, b.metrics,
                                                  b.error_message, Some(o.logs))], None)
         [] OTHER -> Ret(o, m1, [kind |-> b.kind, value |-> b], None)

---------------------------------------------------------------------------
(* CustomScoringEngine *)

CustomInit(ground_truth_path, script_path, logsRef) ==
    BaseInit("custom", ground_truth_path, logsRef) @@
    [script_path |-> script_path,
     custom_module |-> None,
     scorer_instance |-> None]

Custom_load_script(o, m) ==
    LET script == o.script_path
    IN IF o.custom_module # None THEN Ret(o, m, TRUE, None)
       ELSE IF ~script.exists
       THEN Ret(o, log(o, m, "Scoring script not found: {}", "ERROR", <<>>), FALSE, None)
       ELSE LET mx == [m EXCEPT !.execs = @ + 1]      \* spec.loader.exec_module(module)
            IN IF script.body_raises
               THEN Ret(o, log(o, mx, "Failed to load scoring script: {}", "ERROR", <<>>),
                        FALSE, None)
               ELSE LET o1 == [o EXCEPT !.custom_module = Some(script)]
                    IN IF script.has_class
                       THEN IF script.cls.ctor_raises
                            THEN Ret(o1, log(o1, mx, "Failed to load scoring script: {}",
                                             "ERROR", <<>>), FALSE, None)
                            ELSE LET m1 == NewList(mx, <<>>)
                                     inst == OperatorInit(script, o.ground_truth_path,
                                                          NewRef(mx))
                                     o2 == [o1 EXCEPT !.scorer_instance = Some(inst)]
                                 IN Ret(o2, log(o2, m1, "Loaded CustomScorer class from {}",
                                                "INFO", <<>>), TRUE, None)
                       ELSE IF script.has_function
                       THEN Ret(o1, log(o1, mx, "Found calculate_score function in {}",
                                        "INFO", <<>>), TRUE, None)
                       ELSE Ret(o1, log(o1, mx,
                                "Script must define 'CustomScorer' class or 'calculate_score' function",
                                "ERROR", <<>>), FALSE, None)

Custom_load_ground_truth(o, m) ==
    LET Delegated(l, r) ==
            LET o1 == [l.o EXCEPT !.scorer_instance = Some(r.o)]
            IN IF r.exc # None THEN Ret(o1, r.mem, None, r.exc)
               ELSE Ret([o1 EXCEPT !.ground_truth_df = r.o.ground_truth_df,
                                   !.REQUIRED_COLUMNS = r.o.REQUIRED_COLUMNS],
                        r.mem, r.ret, None)
        ScriptLoaded(l) ==
            IF ~l.ret THEN l
            ELSE IF l.o.scorer_instance # None
            THEN Delegated(l, Operator_load_ground_truth(l.o.script_path,
                                                         Get(l.o.scorer_instance), l.mem))
            ELSE Base_load_ground_truth(l.o, l.mem)
    IN ScriptLoaded(Custom_load_script(o, m))

Custom_validate_prediction_format(o, m, prediction_df) ==
    LET Delegated(r) == Ret([o EXCEPT !.scorer_instance = Some(r.o)], r.mem, r.ret, r.exc)
    IN IF o.scorer_instance # None
       THEN Delegated(Operator_validate_prediction_format(
                          o.script_path, Get(o.scorer_instance), m, prediction_df))
       ELSE Base_validate_prediction_format(o, m, prediction_df)

OperatorLines_Dropped(m, texts) == <<>>

\* the log lines a script returns are plain strings
OperatorLines(m, texts) == [i \in DOMAIN texts |-> Line("", texts[i], <<>>, m.call)]

\* calc_func(prediction_df, ground_truth_df, logger=self) and the adaptation of
\* what it returns
Custom_call_function(o, m) ==
    LET f == o.script_path.fn
        m1 == IF f.uses_logger
              THEN log(o, m, "Starting custom scoring calculation...", "INFO", <<>>)
              ELSE m
        b == f.returns
    IN IF ~o.script_path.has_function THEN Ret(o, m, None, Some("AttributeError"))
       ELSE IF ~f.accepts_kwargs THEN Ret(o, m, None, Some("TypeError"))
       ELSE CASE b.kind = "raise" -> Ret(o, m1, None, Some("OperatorError"))
              [] b.kind = "ScoringResult" ->
                   LET m2 == IF b.logs = None THEN m1
                             ELSE NewList(m1, OperatorLines(m1, Get(b.logs)))
                       ref == IF b.logs = None THEN None ELSE Some(NewRef(m1))
                   IN Ret(o, m2, [kind |-> "ScoringResult",
                                  value |-> ScoringResult(Get(b.success), b.score,
                                                          b.metrics, b.error_message,
                                                          ref)], None)
              [] b.kind = "number" ->
                   Ret(o, m1, [kind |-> "ScoringResult",
                               value |-> ScoringResult(TRUE, b.score, None, None,
                                                       Some(o.logs))], None)
              [] b.kind = "dict" ->
                   LET content == m1.lists[o.logs] \o
                                  (IF b.logs = None THEN <<>>
                                   ELSE OperatorLines(m1, Get(b.logs)))
                   IN Ret(o, NewList(m1, content),
                          [kind |-> "ScoringResult",
                           value |-> ScoringResult(
                               IF b.success = None THEN TRUE ELSE Get(b.success),
                               b.score, b.metrics, b.error_message,
                               Some(NewRef(m1)))], None)
              [] OTHER -> Ret(o, m1, None, Some("ValueError"))

Custom_calculate_score(o, m, prediction_df, ground_truth_df) ==
    LET Delegated(l, c) ==
            Ret([l.o EXCEPT !.scorer_instance = Some(c.o)], c.mem, c.ret, c.exc)
        Tried(r) ==
            IF r.exc # None
            THEN Ret(r.o, log(r.o, r.mem, "Custom scoring execution failed: {}", "ERROR",
                              <<Get(r.exc)>>),
                     [kind |-> "ScoringResult",
                      value |-> ScoringResult(FALSE, None, None,
                                              Some(Msg(Get(r.exc), {})), Some(r.o.logs))],
                     None)
            ELSE r
        ScriptLoaded(l) ==
            IF ~l.ret
            THEN Ret(l.o, l.mem,
                     [kind |-> "ScoringResult",
                      value |-> ScoringResult(FALSE, None, None,
                                              Some(Msg("Failed to load scoring script", {})),
                                              None)], None)
            ELSE Tried(IF l.o.scorer_instance # None
                       THEN Delegated(l, Operator_calculate_score(
                                             l.o.script_path, Get(l.o.scorer_instance),
                                             l.mem, prediction_df, ground_truth_df))
                       ELSE Custom_call_function(l.o, l.mem))
    IN ScriptLoaded(Custom_load_script(o, m))

---------------------------------------------------------------------------
(* Method dispatch on the engine's class, and BaseScoringEngine.score *)

\* the methods entered during the score() call in progress, in order
Enter(m, method) == [m EXCEPT !.trace = Append(@, method)]

load_ground_truth(o, m) ==
    LET m1 == Enter(m, "load_ground_truth")
    IN CASE o.engine_type = "classification" -> Classification_load_ground_truth(o, m1)
         [] o.engine_type = "detection" -> Detection_load_ground_truth(o, m1)
         [] o.engine_type = "segmentation" -> Segmentation_load_ground_truth(o, m1)
         [] o.engine_type = "custom" -> Custom_load_ground_truth(o, m1)

validate_prediction_format(o, m, prediction_df) ==
    LET m1 == Enter(m, "validate_prediction_format")
    IN CASE o.engine_type = "classification" ->
                Classification_validate_prediction_format(o, m1, prediction_df)
         [] o.engine_type = "detection" ->
                Detection_validate_prediction_format(o, m1, prediction_df)
         [] o.engine_type = "segmentation" ->
                Segmentation_validate_prediction_format(o, m1, prediction_df)
         [] o.engine_type = "custom" ->
                Custom_validate_prediction_format(o, m1, prediction_df)

AsResult(r) == Ret(r.o, r.mem,
                   IF r.exc = None THEN [kind |-> "ScoringResult", value |-> r.ret] ELSE None,
                   r.exc)

calculate_score(o, m, prediction_df, ground_truth_df) ==
    LET m1 == Enter(m, "calculate_score")
    IN CASE o.engine_type = "classification" ->
                AsResult(Classification_calculate_score(o, m1, prediction_df, ground_truth_df))
         [] o.engine_type = "detection" ->
                AsResult(Detection_calculate_score(o, m1, prediction_df, ground_truth_df))
         [] o.engine_type = "segmentation" ->
                AsResult(Segmentation_calculate_score(o, m1, prediction_df, ground_truth_df))
         [] o.engine_type = "custom" ->
                Custom_calculate_score(o, m1, prediction_df, ground_truth_df)

Failure(o, m, error_message) ==
    Ret(o, m, ScoringResult(FALSE, None, None, Some(error_message), Some(o.logs)), None)

\* result.logs = self.logs + (result.logs or []); return result
MergeLogs(o, m, result) ==
    Ret(o, NewList(m, m.lists[o.logs] \o LogsOrEmpty(m, result.logs)),
        [result EXCEPT !.logs = Some(NewRef(m))], None)

ScoringFailed(o, m, exc) ==
    Failure(o, log(o, m, "Scoring failed: {}", "ERROR", <<exc>>), Msg(exc, {}))

\* score(), from the result c of calculate_score on (base.py 161-169)
score_calculated(c) ==
    IF c.exc # None THEN ScoringFailed(c.o, c.mem, Get(c.exc))
    ELSE IF c.ret.kind # "ScoringResult" THEN ScoringFailed(c.o, c.mem, "AttributeError")
    ELSE MergeLogs(c.o, c.mem, c.ret.value)

\* score(), from the outcome v of validate_prediction_format on (base.py 150-160)
score_validated(prediction_df, v) ==
    IF v.exc # None THEN Ret(v.o, v.mem, None, v.exc)
    ELSE IF ~v.ret.is_valid THEN Failure(v.o, v.mem, v.ret.error_msg)
    ELSE score_calculated(IF v.o.ground_truth_df = None
                          THEN Ret(v.o, v.mem, None, Some("TypeError"))
                          ELSE calculate_score(v.o, v.mem, prediction_df,
                                               Get(v.o.ground_truth_df)))

\* score(), from the outcome p of load_prediction on (base.py 141-150)
score_prediction_loaded(p) ==
    IF p.ret = None THEN Failure(p.o, p.mem, Msg("Failed to load prediction file", {}))
    ELSE score_validated(Get(p.ret), validate_prediction_format(p.o, p.mem, Get(p.ret)))

\* score(), from the outcome g of load_ground_truth on (base.py 133-141)
score_ground_truth_loaded(g, prediction_path) ==
    IF g.exc # None THEN Ret(g.o, g.mem, None, g.exc)
    ELSE IF ~g.ret THEN Failure(g.o, g.mem, Msg("Failed to load ground truth", {}))
    ELSE score_prediction_loaded(load_prediction(g.o, g.mem, prediction_path))

\* self.logs = [], then the ground truth is loaded unless a table is held
score_reset(o0, m0, prediction_path) ==
    score_ground_truth_loaded(IF o0.ground_truth_df = None
                              THEN load_ground_truth(o0, m0)
                              ELSE Ret(o0, m0, TRUE, None),
                              prediction_path)

score(o, m, prediction_path) ==
    score_reset([o EXCEPT !.logs = NewRef(m)], NewList(m, <<>>), prediction_path)

---------------------------------------------------------------------------
(* Inputs: ground-truth files, prediction files, scripts *)

Ids == 1..MaxId
Labels == {"cat", "dog", MISSING}

ClsColumns == <<"id", "label">>
ClsRow(i, l) == [id |-> i, label |-> l]

\* tables over the identifiers S, one row per identifier, in identifier order
RECURSIVE RowsOf(_, _)
RowsOf(S, f) == IF S = {} THEN <<>>
                ELSE LET i == CHOOSE x \in S : \A y \in S : x <= y
                     IN <<ClsRow(i, f[i])>> \o RowsOf(S \ {i}, f)

ClsTables(L, nonempty) ==
    {Table(ClsColumns, RowsOf(S, f)) :
        S \in {T \in SUBSET Ids : ~nonempty \/ T # {}}, f \in [Ids -> L]}

\* detection tables: boxes in pixels, confidence in hundredths
DetColumns == <<"image_id", "class", "xmin", "ymin", "xmax", "ymax">>
DetPredColumns == <<"image_id", "class", "confidence", "xmin", "ymin", "xmax", "ymax">>
DetRow(image_id, class, box) ==
    [image_id |-> image_id, class |-> class,
     xmin |-> box[1], ymin |-> box[2], xmax |-> box[3], ymax |-> box[4]]
DetPred(image_id, class, confidence, box) ==
    DetRow(image_id, class, box) @@ [confidence |-> confidence]

DetGtFiles ==
    {Unreadable,
     File(TRUE, Table(<<"image_id", "class">>, <<[image_id |-> 1, class |-> "car"]>>)),
     File(TRUE, Table(DetColumns, <<DetRow(1, "car", <<0, 0, 4, 4>>),
                                    DetRow(1, "car", <<6, 6, 9, 9>>),
                                    DetRow(2, "bus", <<0, 0, 2, 2>>)>>))}

DetPredFiles ==
    {Unreadable,
     File(TRUE, Table(DetColumns, <<DetRow(1, "car", <<0, 0, 4, 4>>)>>)),
     File(TRUE, Table(<<"image_id">>, <<[image_id |-> 1]>>)),
     File(TRUE, WithText(Table(DetPredColumns, <<DetPred(1, "car", 90, <<0, 0, 4, 4>>)>>),
                         {"xmax"})),
     File(TRUE, Table(DetPredColumns, <<DetPred(1, "car", 150, <<0, 0, 4, 4>>)>>)),
     File(TRUE, Table(DetPredColumns, <<DetPred(1, "car", 90, <<0, 0, 4, 4>>),
                                        DetPred(1, "car", 80, <<0, 0, 4, 3>>),
                                        DetPred(2, "bus", 70, <<1, 0, 3, 2>>)>>)),
     File(TRUE, Table(DetPredColumns, <<DetPred(1, "car", 60, <<0, 0, 4, 4>>),
                                        DetPred(1, "car", 90, <<6, 6, 9, 9>>),
                                        DetPred(2, "bus", 80, <<0, 0, 2, 2>>)>>))}

\* segmentation tables
SegColumns == <<"image_id", "class", "rle_mask", "height", "width">>
SegPredColumns == <<"image_id", "class", "rle_mask">>
SegRow(image_id, class, rle, height, width) ==
    [image_id |-> image_id, class |-> class, rle_mask |-> rle,
     height |-> height, width |-> width]
SegPred(image_id, class, rle) == [image_id |-> image_id, class |-> class, rle_mask |-> rle]

SegGtFiles ==
    {Unreadable,
     File(TRUE, Table(SegPredColumns, <<SegPred(1, "sky", Rle("text", <<1, 2>>))>>)),
     File(TRUE, WithText(Table(SegColumns,
                               <<SegRow(1, "sky", Rle("text", <<1, 2>>), 2, 2)>>),
                         {"height"})),
     File(TRUE, Table(SegColumns, <<SegRow(1, "sky", Rle("text", <<1, 2>>), 2, 2),
                                    SegRow(1, "sea", Rle("text", <<3, 2>>), 2, 2),
                                    SegRow(2, "sky", Rle("nan", <<>>), 1, 2)>>))}

SegPredFiles ==
    {Unreadable,
     File(TRUE, Table(<<"image_id", "class">>, <<[image_id |-> 1, class |-> "sky"]>>)),
     File(TRUE, Table(SegPredColumns, <<SegPred(1, "sky", Rle("number", <<3>>))>>)),
     File(TRUE, Table(SegPredColumns, <<SegPred(1, "sky", Rle("text", <<1, 2>>)),
                                        SegPred(1, "sea", Rle("text", <<3, 2>>))>>)),
     File(TRUE, Table(SegPredColumns, <<SegPred(1, "sky", Rle("text", <<1, 1>>)),
                                        SegPred(1, "sea", Rle("malformed", <<>>)),
                                        SegPred(2, "sky", Rle("text", <<1, 1, 9, 1>>))>>))}

GtFiles ==
    {Unreadable,
     File(TRUE, Table(<<"id">>, <<[id |-> 1]>>)),
     File(TRUE, Table(ClsColumns, <<ClsRow(1, "cat"), ClsRow(2, "dog")>>)),
     File(TRUE, Table(ClsColumns, <<ClsRow(1, "cat"), ClsRow(2, NaN)>>))}

PredFiles ==
    {Unreadable,
     File(TRUE, Table(<<"id">>, <<[id |-> 1]>>)),
     File(TRUE, Table(<<"label">>, <<[label |-> "cat"]>>)),
     File(TRUE, Table(<<"name">>, <<[name |-> "x"]>>)),
     File(TRUE, Table(<<"id">>, <<[id |-> 1], [id |-> 1]>>)),
     File(TRUE, Table(ClsColumns, <<ClsRow(1, "cat"), ClsRow(1, "dog")>>)),
     File(TRUE, Table(ClsColumns, <<ClsRow(1, "cat"), ClsRow(2, "dog")>>)),
     File(TRUE, Table(ClsColumns, <<ClsRow(1, "dog")>>))}

MetricTypes == {"ACCURACY", "F1", "MAP"}
DetMetricTypes == {"MAP", "MAP_50_95"}

NoReturn == Returned("raise", None, None, None, None, None)
NoClass == [ctor_raises |-> FALSE, REQUIRED_COLUMNS |-> <<>>, load_raises |-> FALSE,
            validate_raises |-> FALSE, raised |-> "OperatorError", calc |-> NoReturn]
NoFunction == [accepts_kwargs |-> FALSE, uses_logger |-> FALSE, returns |-> NoReturn]

Script(exists, body_raises, has_class, has_function, cls, fn) ==
    [exists |-> exists, body_raises |-> body_raises, has_class |-> has_class,
     has_function |-> has_function, cls |-> cls, fn |-> fn]

ClassScript(ctor_raises, load_raises, validate_raises, calc) ==
    Script(TRUE, FALSE, TRUE, FALSE,
           [ctor_raises |-> ctor_raises, REQUIRED_COLUMNS |-> ClsColumns,
            load_raises |-> load_raises, validate_raises |-> validate_raises,
            raised |-> "OperatorError", calc |-> calc], NoFunction)

FunctionScript(accepts_kwargs, uses_logger, returns) ==
    Script(TRUE, FALSE, FALSE, TRUE, NoClass,
           [accepts_kwargs |-> accepts_kwargs, uses_logger |-> uses_logger,
            returns |-> returns])

\* what a scorer may return (src/tests/test_custom_scoring.py, src/examples)
GoodResult == Returned("ScoringResult", Some(TRUE), Some(950000), Some([custom_metric |-> 123]),
                       None, Some(<<"Log from custom script">>))
Returns ==
    {NoReturn,
     GoodResult,
     Returned("ScoringResult", Some(TRUE), None, None, None, None),
     Returned("ScoringResult", Some(FALSE), None, None, Some(Msg("bad prediction", {})), None),
     Returned("number", None, Some(5000000), None, None, None),
     Returned("dict", Some(TRUE), Some(600000), Some([matches |-> 3, total |-> 5]), None,
              None),
     Returned("dict", None, None, Some([matches |-> 3, total |-> 5]), None,
              Some(<<"Log from custom script">>)),
     Returned("dict", Some(FALSE), None, None,
              Some(Msg("Missing required columns in prediction", {})), None),
     Returned("other", None, None, None, None, None)}

Scripts ==
    {Script(FALSE, FALSE, FALSE, FALSE, NoClass, NoFunction),
     Script(TRUE, TRUE, FALSE, FALSE, NoClass, NoFunction),
     Script(TRUE, FALSE, FALSE, FALSE, NoClass, NoFunction),
     ClassScript(TRUE, FALSE, FALSE, GoodResult),
     ClassScript(FALSE, TRUE, FALSE, GoodResult),
     ClassScript(FALSE, FALSE, TRUE, GoodResult),
     FunctionScript(FALSE, FALSE, GoodResult)}
    \cup {ClassScript(FALSE, FALSE, FALSE, b) : b \in Returns}
    \cup {FunctionScript(TRUE, TRUE, b) : b \in Returns}

\* lists: the list objects, lists[1] being the logs list made by __init__;
\* call: the index of the score() call in progress, trace: the methods it entered,
\* emitted: the lines it passed to log(), execs: executions of the script's module body
Mem0 == [lists |-> <<<<>>>>, call |-> 0, trace |-> <<>>, emitted |-> <<>>, execs |-> 0]

---------------------------------------------------------------------------
(* scoring/tasks.py.  The database is [competition, submissions, logs]: the *)
(* Competition row, the Submission rows by id and the SubmissionLog rows in *)
(* creation order.  A FileField is None or Some(file).                      *)

Competition(task_type, metric_type, public_ground_truth, scoring_script) ==
    [task_type |-> task_type, metric_type |-> metric_type,
     public_ground_truth |-> public_ground_truth, private_ground_truth |-> None,
     scoring_script |-> scoring_script,
     daily_upload_limit |-> 5, total_upload_limit |-> 100,
     private_scoring_completed |-> FALSE]

Submission(prediction_file) ==
    [competition |-> 1, user |-> 1,
     prediction_file |-> prediction_file, status |-> "PENDING", public_score |-> None,
     private_score |-> None, scores |-> None, is_final_selection |-> FALSE,
     error_message |-> Msg("", {}), submitted_at |-> 0, scored_at |-> None]

\* the engine made, or the exception raised
Made(e) == [engine |-> Some(e), exc |-> None]
NotMade(exc) == [engine |-> None, exc |-> Some(exc)]

get_scoring_engine_ByTaskTypeOnly(competition, ground_truth_path) ==
    IF ground_truth_path = None /\ competition.public_ground_truth = None
    THEN NotMade("ValueError: no file")
    ELSE CASE competition.task_type = "DETECTION" ->
                Made(DetectionInit(Unreadable, competition.metric_type, 1))
           [] competition.task_type = "SEGMENTATION" ->
                Made(SegmentationInit(Unreadable, competition.metric_type, 1))
           [] OTHER -> Made(ClassificationInit(Unreadable, competition.metric_type, None, 1))

get_scoring_engine(competition, ground_truth_path) ==
    LET Dispatch(path) ==
            IF competition.metric_type = "CUSTOM"
            THEN (IF competition.scoring_script = None
                  THEN NotMade("ValueError: no scoring script")
                  ELSE Made(CustomInit(path, Get(competition.scoring_script), 1)))
            ELSE CASE competition.task_type = "CLASSIFICATION" ->
                        Made(ClassificationInit(path, competition.metric_type, None, 1))
                   [] competition.task_type = "DETECTION" ->
                        Made(DetectionInit(path, competition.metric_type, 1))
                   [] competition.task_type = "SEGMENTATION" ->
                        Made(SegmentationInit(path, competition.metric_type, 1))
                   [] OTHER -> NotMade("ValueError: Unknown task type")
    IN IF ground_truth_path # None THEN Dispatch(Get(ground_truth_path))
       ELSE IF competition.public_ground_truth = None
       THEN NotMade("ValueError: no file")       \* FieldFile.path of an empty field
       ELSE Dispatch(Get(competition.public_ground_truth))

add_submission_log(d, submission, message, level) ==
    [d EXCEPT !.logs = Append(@, [submission |-> submission, level |-> level,
                                  message |-> message])]

\* the level read from the start of an engine's log line, "[LEVEL] message"
SavedLevel(line) ==
    IF line.level = "ERROR" THEN "ERROR"
    ELSE IF line.level = "WARNING" THEN "WARNING" ELSE "INFO"

RECURSIVE SaveLogs(_, _, _)
SaveLogs(d, submission, lines) ==
    IF lines = <<>> THEN d
    ELSE SaveLogs(add_submission_log(d, submission,
                                     [level |-> lines[1].level, text |-> lines[1].text,
                                      args |-> lines[1].args],
                                     SavedLevel(lines[1])),
                  submission, Tail(lines))

\* str(e): an exception is named by its message, but for the NotImplementedError
\* of a method stub, `raise NotImplementedError`, whose message is empty
Message(exc) == IF exc = "NotImplementedError" THEN "" ELSE exc

Unexpected(exc) == [text |-> "Unexpected error: {}", columns |-> {}, exc |-> exc]

\* what a score_submission call leaves: the database, the dict it returns, the
\* engine it built and what score() gave it
Task(d, ret, made, r) == [db |-> d, ret |-> ret, made |-> made, scored |-> r]

\* except NotImplementedError: str(e); except Exception: "Unexpected error: ..."
task_failed(d, submission_id, exc, text, made, r) ==
    Task(add_submission_log(
             [d EXCEPT !.submissions[submission_id].status = "FAILED",
                       !.submissions[submission_id].error_message = text],
             submission_id, text, "ERROR"),
         [success |-> FALSE, error |-> Some(Msg(Message(exc), {}))], made, r)

task_raised(d, submission_id, exc, made, r) ==
    task_failed(d, submission_id, exc,
                IF exc = "NotImplementedError" THEN Msg(Message(exc), {})
                ELSE Unexpected(exc),
                made, r)

\* the result's logs are saved in d: status, score or error message
task_saved(d, submission_id, now, made, r) ==
    IF r.ret.success
    THEN Task(add_submission_log(
                  [d EXCEPT !.submissions[submission_id].status = "SUCCESS",
                            !.submissions[submission_id].public_score = r.ret.score,
                            !.submissions[submission_id].scored_at = Some(now)],
                  submission_id,
                  [text |-> "Scoring completed. Score: {}", score |-> r.ret.score],
                  "INFO"),
              [success |-> TRUE, score |-> r.ret.score, metrics |-> r.ret.metrics],
              made, Some(r))
    ELSE Task(add_submission_log(
                  [d EXCEPT !.submissions[submission_id].status = "FAILED",
                            !.submissions[submission_id].error_message =
                                IF r.ret.error_message = None
                                THEN Msg("Unknown error", {})
                                ELSE Get(r.ret.error_message)],
                  submission_id,
                  [text |-> "Scoring failed: {}", error |-> r.ret.error_message],
                  "ERROR"),
              [success |-> FALSE, error |-> r.ret.error_message],
              made, Some(r))

\* result = engine.score(prediction_path) returned or raised r
task_scored(d, submission_id, now, made, r) ==
    IF r.exc # None THEN task_raised(d, submission_id, Get(r.exc), made, Some(r))
    ELSE task_saved(SaveLogs(d, submission_id, LogsOrEmpty(r.mem, r.ret.logs)),
                    submission_id, now, made, r)

\* engine = get_scoring_engine(competition) returned or raised g
task_built(d, submission_id, now, g) ==
    IF g.exc # None THEN task_raised(d, submission_id, Get(g.exc), None, None)
    ELSE task_scored(d, submission_id, now, g.engine,
                     score(Get(g.engine), [Mem0 EXCEPT !.call = now],
                           d.submissions[submission_id].prediction_file))

\* the status is PROCESSING and "Started scoring" is logged in d
task_started(d, submission_id, now) ==
    task_built(d, submission_id, now, get_scoring_engine(d.competition, None))

\* score_submission(submission_id) at time now
score_submission(d, submission_id, now) ==
    IF submission_id \notin DOMAIN d.submissions
    THEN Task(d, [success |-> FALSE, error |-> Some(Msg("Submission not found", {}))],
              None, None)
    ELSE task_started(add_submission_log(
                          [d EXCEPT !.submissions[submission_id].status = "PROCESSING"],
                          submission_id, [text |-> "Started scoring"], "INFO"),
                      submission_id, now)

\* Submission.objects.filter(competition=competition, is_final_selection=True,
\* status=SUCCESS) in the model's ordering, newest first
RECURSIVE FinalSubmissions(_, _)
FinalSubmissions(d, n) ==
    IF n = 0 THEN <<>>
    ELSE IF d.submissions[n].is_final_selection /\ d.submissions[n].status = "SUCCESS"
    THEN <<n>> \o FinalSubmissions(d, n - 1)
    ELSE FinalSubmissions(d, n - 1)

\* what a score_private_submissions call leaves: the database, the dict it
\* returns or the exception it raises, and the score() calls it made
Batch(d, ret, exc, runs) == [db |-> d, ret |-> ret, raised |-> exc, runs |-> runs]

\* the state of the loop: database, count, errors, and the calls made so far
Loop(d, count, errors, runs) == [db |-> d, count |-> count, errors |-> errors, runs |-> runs]

Run(submission, r) ==
    [submission |-> submission, raised |-> r.exc,
     result |-> IF r.exc = None THEN Some(r.ret) ELSE None,
     trace |-> r.mem.trace]

\* one iteration's body after result = engine.score(prediction_path) gave r
private_scored(l, submission, r) ==
    IF r.exc # None
    THEN Loop(add_submission_log(l.db, submission,
                                 [text |-> "Private scoring unexpected error: {}",
                                  exc |-> Get(r.exc)], "ERROR"),
              l.count,
              Append(l.errors, [submission |-> submission, text |-> "error",
                                detail |-> r.exc]),
              Append(l.runs, Run(submission, r)))
    ELSE IF r.ret.success
    THEN Loop(add_submission_log(
                  [l.db EXCEPT !.submissions[submission].private_score = r.ret.score],
                  submission,
                  [text |-> "Private scoring completed. Score: {}", score |-> r.ret.score],
                  "INFO"),
              l.count + 1, l.errors, Append(l.runs, Run(submission, r)))
    ELSE Loop(add_submission_log(l.db, submission,
                                 [text |-> "Private scoring failed: {}",
                                  error |-> r.ret.error_message], "ERROR"),
              l.count,
              Append(l.errors, [submission |-> submission, text |-> "failed",
                                detail |-> r.ret.error_message]),
              Append(l.runs, Run(submission, r)))

\* for submission in final_submissions, on the engine o
RECURSIVE private_loop(_, _, _, _)
private_step(l, ids, r) == private_loop(private_scored(l, Head(ids), r), Tail(ids), r.o, r.mem)

private_loop(l, ids, o, m) ==
    IF ids = <<>> THEN l
    ELSE private_step(l, ids,
                      score(o, [m EXCEPT !.call = Len(l.runs) + 1, !.trace = <<>>,
                                         !.emitted = <<>>],
                            l.db.submissions[Head(ids)].prediction_file))

private_done(l) ==
    Batch([l.db EXCEPT !.competition.private_scoring_completed = TRUE],
          [success |-> l.errors = <<>>, processed_count |-> l.count,
           error_count |-> Len(l.errors), errors |-> l.errors],
          None, l.runs)

\* engine = get_scoring_engine(competition, private_ground_truth.path) gave g
private_built(d, g) ==
    IF g.exc # None THEN Batch(d, None, g.exc, <<>>)
    ELSE private_done(private_loop(Loop(d, 0, <<>>, <<>>),
                                   FinalSubmissions(d, Len(d.submissions)),
                                   Get(g.engine), Mem0))

\* score_private_submissions(competition_id); the competition of d has id 1
score_private_submissions(d, competition_id) ==
    IF competition_id # 1
    THEN Batch(d, [success |-> FALSE, error |-> "Competition not found"], None, <<>>)
    ELSE IF d.competition.private_ground_truth = None
    THEN Batch(d, [success |-> FALSE,
                   error |-> "No private ground truth uploaded for this competition"],
               None, <<>>)
    ELSE private_built(d, get_scoring_engine(d.competition,
                                             d.competition.private_ground_truth))

---------------------------------------------------------------------------
(* Engine life cycle: one instance, a sequence of score() calls *)

Engines ==
    {ClassificationInit(g, t, None, 1) : g \in GtFiles, t \in MetricTypes}
    \cup {DetectionInit(g, t, 1) : g \in DetGtFiles, t \in DetMetricTypes}
    \cup {SegmentationInit(g, "MIOU", 1) : g \in SegGtFiles}
    \cup {CustomInit(g, s, 1) : g \in GtFiles, s \in Scripts}

\* the submissions an engine of a given type is given
PredFilesFor(engine_type) ==
    CASE engine_type = "detection" -> DetPredFiles
      [] engine_type = "segmentation" -> SegPredFiles
      [] OTHER -> PredFiles

Init ==
    /\ engine \in Engines
    /\ mem = Mem0
    /\ outcomes = <<>>
    /\ argv = None
    /\ db = None

\* what the caller holds after a call: the exception or the result, with the
\* call's record (methods entered, lines logged, the columns required when it
\* ended, the content of the result's logs when it was returned)
Outcome(prediction_path, r) ==
    [prediction |-> prediction_path,
     raised |-> r.exc,
     result |-> IF r.exc = None THEN Some(r.ret) ELSE None,
     trace |-> r.mem.trace,
     emitted |-> r.mem.emitted,
     required |-> r.o.REQUIRED_COLUMNS,
     logs_at_return |-> IF r.exc = None THEN LogsOrEmpty(r.mem, r.ret.logs) ELSE <<>>]

Called(prediction_path, r) ==
    /\ engine' = r.o
    /\ mem' = r.mem
    /\ outcomes' = Append(outcomes, Outcome(prediction_path, r))
    /\ UNCHANGED <<argv, db>>

DoScore(prediction_path) ==
    Called(prediction_path,
           score(engine, [mem EXCEPT !.call = Len(outcomes) + 1, !.trace = <<>>,
                                     !.emitted = <<>>],
                 prediction_path))

Score ==
    /\ Len(outcomes) < MaxCalls
    /\ \E prediction_path \in PredFilesFor(engine.engine_type) : DoScore(prediction_path)

Next == Score

Spec == Init /\ [][Next]_vars

---------------------------------------------------------------------------
(* One score() call of a classification engine, over every pair of a       *)
(* ground truth and a submission with unique identifiers                    *)

\* the metric type (of competitions.models.MetricType) and the target class of
\* the competition
AccConfigs ==
    {<<"ACCURACY", None>>, <<"F1", None>>, <<"F1", Some("cat")>>,
     <<"PRECISION", None>>, <<"RECALL", None>>, <<"MAP", None>>}

AccGtFiles == {File(TRUE, df) : df \in ClsTables(Labels, TRUE)}
AccPredFiles == {File(TRUE, df) : df \in ClsTables(Labels \cup {NaN}, FALSE)}

InitAcc ==
    /\ engine \in {ClassificationInit(g, c[1], c[2], 1) : g \in AccGtFiles, c \in AccConfigs}
    /\ mem = Mem0
    /\ outcomes = <<>>
    /\ argv = None
    /\ db = None

ScoreAcc ==
    /\ outcomes = <<>>
    /\ \E prediction_path \in AccPredFiles : DoScore(prediction_path)

NextAcc == ScoreAcc

SpecAcc == InitAcc /\ [][NextAcc]_vars

---------------------------------------------------------------------------
(* One call of DetectionScoringEngine._calculate_ap_per_class on an engine  *)
(* whose ground truth is loaded, over small tables of boxes                 *)

MaxBoxes == 2       \* rows of a table of boxes

BoxA == <<0, 0, 2, 2>>
BoxB == <<0, 0, 2, 1>>      \* half of BoxA: IoU 1/2

ApGtRows == {DetRow(1, "car", BoxA), DetRow(1, "car", BoxB), DetRow(2, "car", BoxA)}
ApPredRows == {DetPred(1, "car", 90, BoxA), DetPred(1, "car", 50, BoxA),
               DetPred(1, "car", 50, BoxB), DetPred(2, "car", 90, BoxA),
               DetPred(1, "bus", 90, BoxA)}

SeqsUpTo(S, n) == UNION {[1..k -> S] : k \in 0..n}

ApThresholds == {FOfRatio(1, 2), F1}

InitAp ==
    /\ \E rows \in SeqsUpTo(ApGtRows, MaxBoxes) :
          LET Loaded(r) == engine = r.o /\ mem = r.mem
          IN Loaded(Detection_load_ground_truth(
                        DetectionInit(File(TRUE, Table(DetColumns, rows)), "MAP", 1), Mem0))
    /\ outcomes = <<>>
    /\ argv \in [pred_df : {Table(DetPredColumns, rows) :
                                rows \in SeqsUpTo(ApPredRows, MaxBoxes)},
                  class_label : {"car"},
                  iou_threshold : ApThresholds]
    /\ db = None

NoMatches == [tp |-> <<>>, fp |-> <<>>, marks |-> <<>>]

ApPerClass ==
    /\ outcomes = <<>>
    /\ outcomes' =
          <<[call |-> "_calculate_ap_per_class",
             loop |-> IF Len(ClassRows(engine, Get(engine.ground_truth_df),
                                       argv.class_label)) = 0
                         \/ Len(ClassRows(engine, argv.pred_df, argv.class_label)) = 0
                      THEN NoMatches
                      ELSE ClassMatches(engine, argv.pred_df, Get(engine.ground_truth_df),
                                        argv.class_label, argv.iou_threshold),
             ret |-> Detection_calculate_ap_per_class(
                         engine, argv.pred_df, Get(engine.ground_truth_df),
                         argv.class_label, argv.iou_threshold)]>>
    /\ UNCHANGED <<engine, mem, argv, db>>

NextAp == ApPerClass

SpecAp == InitAp /\ [][NextAp]_vars

---------------------------------------------------------------------------
(* One call of calculate_iou on two boxes with small integer coordinates,   *)
(* in any order of the corners                                              *)

MaxCoord == 2

Boxes == {<<xmin, ymin, xmax, ymax>> : xmin \in 0..MaxCoord, ymin \in 0..MaxCoord,
                                       xmax \in 0..MaxCoord, ymax \in 0..MaxCoord}

\* the float a quotient of integers is; a zero is given without its sign
\* (0 / -8 is -0.0, and -0.0 == 0.0)
FloatOf(r) == [neg |-> r.n < 0, abs |-> FOfRatio(Abs(r.n), r.d)]

InitIou ==
    /\ engine = None
    /\ mem = Mem0
    /\ outcomes = <<>>
    /\ argv \in [box1 : Boxes, box2 : Boxes]
    /\ db = None

Iou ==
    /\ outcomes = <<>>
    /\ outcomes' = <<[call |-> "calculate_iou",
                      ret |-> FloatOf(calculate_iou(argv.box1, argv.box2))]>>
    /\ UNCHANGED <<engine, mem, argv, db>>

NextIou == Iou

SpecIou == InitIou /\ [][NextIou]_vars

---------------------------------------------------------------------------
(* rle_encode of a binary mask, then rle_decode of the string with the      *)
(* mask's height and width                                                  *)

MaxPixels == 10     \* height * width of a mask

MaskShapes == {hw \in (0..MaxPixels) \X (0..MaxPixels) : hw[1] * hw[2] <= MaxPixels}

InitRle ==
    /\ engine = None
    /\ mem = Mem0
    /\ outcomes = <<>>
    /\ \E hw \in MaskShapes :
          argv \in [height : {hw[1]}, width : {hw[2]}, mask : [1..(hw[1] * hw[2]) -> {0, 1}]]
    /\ db = None

Encode ==
    /\ outcomes = <<>>
    /\ outcomes' = <<[call |-> "rle_encode", ret |-> rle_encode(argv.mask)]>>
    /\ UNCHANGED <<engine, mem, argv, db>>

Decode ==
    /\ Len(outcomes) = 1
    /\ outcomes' = Append(outcomes,
                          [call |-> "rle_decode",
                           ret |-> rle_decode(StrCell(outcomes[1].ret),
                                              argv.height, argv.width)])
    /\ UNCHANGED <<engine, mem, argv, db>>

NextRle == Encode \/ Decode

SpecRle == InitRle /\ [][NextRle]_vars

---------------------------------------------------------------------------
(* calculate_mask_iou on two binary masks of one shape, in both orders      *)

MaxArea == 4        \* pixels of a mask

InitMaskIou ==
    /\ engine = None
    /\ mem = Mem0
    /\ outcomes = <<>>
    /\ \E n \in 0..MaxArea : argv \in [mask1 : [1..n -> {0, 1}], mask2 : [1..n -> {0, 1}]]
    /\ db = None

MaskIou ==
    /\ \A i \in DOMAIN outcomes : outcomes[i].swapped
    /\ outcomes' = Append(outcomes,
                          [call |-> "calculate_mask_iou", swapped |-> FALSE,
                           ret |-> FloatOf(calculate_mask_iou(argv.mask1, argv.mask2))])
    /\ UNCHANGED <<engine, mem, argv, db>>

MaskIouSwapped ==
    /\ \A i \in DOMAIN outcomes : ~outcomes[i].swapped
    /\ outcomes' = Append(outcomes,
                          [call |-> "calculate_mask_iou", swapped |-> TRUE,
                           ret |-> FloatOf(calculate_mask_iou(argv.mask2, argv.mask1))])
    /\ UNCHANGED <<engine, mem, argv, db>>

NextMaskIou == MaskIou \/ MaskIouSwapped

SpecMaskIou == InitMaskIou /\ [][NextMaskIou]_vars

---------------------------------------------------------------------------
(* SegmentationScoringEngine.calculate_score on an engine whose ground      *)
(* truth is loaded: on a table of predictions, then on the rows of that     *)
(* table whose (identifier, class) the ground truth has.  Image 1 is 1 x 2, *)
(* image 2 is 2 x 2.                                                        *)

MaxMasks == 2       \* rows of a table of masks

MaskGtRows == {SegRow(1, "sky", Rle("text", <<1, 2>>), 1, 2),
               SegRow(1, "sea", Rle("text", <<>>), 1, 2),
               SegRow(2, "sky", Rle("text", <<1, 1>>), 2, 2),
               SegRow(2, "sea", Rle("text", <<2, 3>>), 2, 2)}

MaskPredRows == {SegPred(1, "sky", Rle("text", <<1, 2>>)),
                 SegPred(1, "sky", Rle("text", <<1, 1>>)),
                 SegPred(2, "sea", Rle("text", <<1, 2>>)),
                 SegPred(2, "sky", Rle("text", <<>>)),
                 SegPred(3, "sky", Rle("text", <<1, 1>>)),
                 SegPred(1, "ice", Rle("text", <<1, 2>>))}

InitSeg ==
    /\ \E rows \in SeqsUpTo(MaskGtRows, MaxMasks) :
          LET Loaded(r) == engine = r.o /\ mem = r.mem
          IN Loaded(Segmentation_load_ground_truth(
                        SegmentationInit(File(TRUE, Table(SegColumns, rows)), "MIOU", 1), Mem0))
    /\ outcomes = <<>>
    /\ argv \in [prediction_df : {Table(SegPredColumns, rows) :
                                      rows \in SeqsUpTo(MaskPredRows, MaxMasks)}]
    /\ db = None

\* the rows of the table whose (identifier, class) is that of a ground-truth row
InGroundTruth(o, prediction_df) ==
    [prediction_df EXCEPT !.rows =
        SelectSeq(@, LAMBDA r :
            \E g \in DOMAIN Get(o.ground_truth_df).rows :
                /\ Get(o.ground_truth_df).rows[g][Get(o.id_col)] = r[Get(o.id_col)]
                /\ Get(o.ground_truth_df).rows[g][Get(o.class_col)] = r[Get(o.class_col)])]

SegScored(prediction_df) ==
    LET Done(r) ==
            /\ engine' = r.o
            /\ mem' = r.mem
            /\ outcomes' = Append(outcomes, [call |-> "calculate_score",
                                             prediction_df |-> prediction_df,
                                             raised |-> r.exc, ret |-> r.ret])
    IN Done(Segmentation_calculate_score(engine, mem, prediction_df,
                                         Get(engine.ground_truth_df)))

ScoreTable ==
    /\ outcomes = <<>>
    /\ SegScored(argv.prediction_df)
    /\ UNCHANGED <<argv, db>>

ScoreRowsInGroundTruth ==
    /\ Len(outcomes) = 1
    /\ SegScored(InGroundTruth(engine, argv.prediction_df))
    /\ UNCHANGED <<argv, db>>

NextSeg == ScoreTable \/ ScoreRowsInGroundTruth

SpecSeg == InitSeg /\ [][NextSeg]_vars

---------------------------------------------------------------------------
(* One CustomScoringEngine instance under any sequence of load_ground_truth, *)
(* calculate_score and score() calls                                         *)

CustomEngines ==
    {CustomInit(g, script, 1) :
        g \in {Unreadable, File(TRUE, Table(ClsColumns, <<ClsRow(1, "cat"), ClsRow(2, "dog")>>))},
        script \in Scripts}

InitCustom ==
    /\ engine \in CustomEngines
    /\ mem = Mem0
    /\ outcomes = <<>>
    /\ argv = None
    /\ db = None

\* what the caller of a method holds after the call, with the content of the
\* engine's logs and of the returned logs at that moment
Direct(call, r) ==
    [call |-> call,
     raised |-> r.exc,
     ret |-> r.ret,
     engine_logs |-> r.mem.lists[r.o.logs],
     logs_at_return |-> IF call = "calculate_score" /\ r.exc = None
                           /\ r.ret.kind = "ScoringResult"
                        THEN LogsOrEmpty(r.mem, r.ret.value.logs) ELSE <<>>]

CalledDirectly(call, r) ==
    /\ engine' = r.o
    /\ mem' = r.mem
    /\ outcomes' = Append(outcomes, Direct(call, r))
    /\ UNCHANGED <<argv, db>>

CustomLoadGroundTruth ==
    /\ Len(outcomes) < MaxCalls
    /\ CalledDirectly("load_ground_truth", Custom_load_ground_truth(engine, mem))

CustomCalculateScore ==
    /\ Len(outcomes) < MaxCalls
    /\ \E df \in {Table(ClsColumns, <<ClsRow(1, "cat")>>)} :
          CalledDirectly("calculate_score", Custom_calculate_score(engine, mem, df, df))

NextCustom == Score \/ CustomLoadGroundTruth \/ CustomCalculateScore

SpecCustom == InitCustom /\ [][NextCustom]_vars

---------------------------------------------------------------------------
(* score_submission tasks on a competition with two submissions; a task may *)
(* be queued for a submission again, and for an id that does not exist      *)

GoodGt == File(TRUE, Table(ClsColumns, <<ClsRow(1, "cat"), ClsRow(2, "dog")>>))

\* the scripts of Scripts, the function with two parameters that raises
\* (src/tests/test_custom_scoring.py), and a CustomScorer whose
\* validate_prediction_format is a stub, `raise NotImplementedError`
TaskScripts ==
    Scripts \cup {FunctionScript(FALSE, FALSE, NoReturn),
                  [ClassScript(FALSE, FALSE, TRUE, GoodResult)
                      EXCEPT !.cls.raised = "NotImplementedError"]}

Competitions ==
    {Competition("CLASSIFICATION", "CUSTOM", Some(GoodGt), Some(script)) :
        script \in TaskScripts}
    \cup {Competition("CLASSIFICATION", "CUSTOM", Some(GoodGt), None)}
    \cup {Competition("CLASSIFICATION", t, g, None) :
             t \in {"ACCURACY", "F1"}, g \in {None, Some(GoodGt), Some(Unreadable)}}
    \cup {Competition("DETECTION", "MAP",
                      Some(File(TRUE, Table(DetColumns, <<DetRow(1, "car", BoxA)>>))), None),
          Competition("SEGMENTATION", "MIOU",
                      Some(File(TRUE, Table(SegColumns,
                                            <<SegRow(1, "sky", Rle("text", <<1, 2>>), 1, 2)>>))),
                      None),
          Competition("KEYPOINTS", "ACCURACY", Some(GoodGt), None)}

\* the prediction files uploaded to a competition
TaskPredFiles(competition) ==
    CASE competition.task_type = "DETECTION" ->
            {Unreadable,
             File(TRUE, Table(DetPredColumns, <<DetPred(1, "car", 90, BoxA)>>)),
             File(TRUE, Table(DetPredColumns, <<DetPred(1, "car", 90, BoxB)>>))}
      [] competition.task_type = "SEGMENTATION" ->
            {Unreadable,
             File(TRUE, Table(SegPredColumns, <<SegPred(1, "sky", Rle("text", <<1, 2>>))>>)),
             File(TRUE, Table(SegPredColumns, <<SegPred(1, "sky", Rle("text", <<1, 1>>))>>))}
      [] OTHER ->
            {Unreadable,
             File(TRUE, Table(<<"id">>, <<[id |-> 1]>>)),
             File(TRUE, Table(ClsColumns, <<ClsRow(1, "cat"), ClsRow(2, "cat")>>))}

InitTask ==
    /\ engine = None
    /\ mem = Mem0
    /\ outcomes = <<>>
    /\ argv = None
    /\ \E competition \in Competitions :
          db \in [competition : {competition},
                  submissions : [1..2 -> {Submission(f) : f \in TaskPredFiles(competition)}],
                  logs : {<<>>}]

\* what is known after a task: the dict it returned, what score() gave the
\* task, and the submission's row as the task left it
TaskOutcome(submission_id, t) ==
    [call |-> "score_submission",
     submission_id |-> submission_id,
     ret |-> t.ret,
     raised |-> IF t.scored = None THEN None ELSE Get(t.scored).exc,
     result |-> IF t.scored # None /\ Get(t.scored).exc = None
                THEN Some(Get(t.scored).ret) ELSE None,
     trace |-> IF t.scored = None THEN <<>> ELSE Get(t.scored).mem.trace,
     logs_at_return |-> IF t.scored # None /\ Get(t.scored).exc = None
                        THEN LogsOrEmpty(Get(t.scored).mem, Get(t.scored).ret.logs)
                        ELSE <<>>,
     row |-> IF submission_id \in DOMAIN t.db.submissions
             THEN Some(t.db.submissions[submission_id]) ELSE None]

TaskDone(submission_id, t) ==
    /\ db' = t.db
    /\ engine' = IF t.scored = None THEN t.made ELSE Some(Get(t.scored).o)
    /\ mem' = IF t.scored = None THEN Mem0 ELSE Get(t.scored).mem
    /\ outcomes' = Append(outcomes, TaskOutcome(submission_id, t))
    /\ UNCHANGED argv

ScoreSubmission ==
    /\ Len(outcomes) < MaxCalls
    /\ \E submission_id \in 1..3 :
          TaskDone(submission_id, score_submission(db, submission_id, Len(outcomes) + 1))

NextTask == ScoreSubmission

SpecTask == InitTask /\ [][NextTask]_vars

---------------------------------------------------------------------------
(* One get_scoring_engine call, over the task types, the metric types, a   *)
(* scoring script configured or not, and a ground-truth path given or not   *)

\* competitions.models.TaskType, and a value that is not a member
TaskTypes == {"CLASSIFICATION", "DETECTION", "SEGMENTATION", "KEYPOINTS"}

\* competitions.models.MetricType
AllMetricTypes == {"ACCURACY", "F1", "MAP", "MAP_50_95", "MIOU", "PRECISION", "RECALL",
                   "AP75", "CUSTOM"}

InitFactory ==
    /\ engine = None
    /\ mem = Mem0
    /\ outcomes = <<>>
    /\ argv \in [ground_truth_path : {None, Some(Unreadable)}]
    /\ db \in [competition : {Competition(t, mt, g, script) :
                                  t \in TaskTypes, mt \in AllMetricTypes,
                                  g \in {None, Some(GoodGt)},
                                  script \in {None, Some(FunctionScript(TRUE, FALSE, GoodResult))}},
                submissions : {<<>>},
                logs : {<<>>}]

GetScoringEngine ==
    /\ outcomes = <<>>
    /\ LET Got(g) ==
               /\ engine' = g.engine
               /\ outcomes' = <<[call |-> "get_scoring_engine", made |-> g]>>
       IN Got(get_scoring_engine(db.competition, argv.ground_truth_path))
    /\ UNCHANGED <<mem, argv, db>>

NextFactory == GetScoringEngine

SpecFactory == InitFactory /\ [][NextFactory]_vars

---------------------------------------------------------------------------
(* One score_private_submissions task on a competition with two            *)
(* submissions, each a final selection or not, scored before or failed      *)

WithPrivate(competition, private_ground_truth) ==
    [competition EXCEPT !.private_ground_truth = private_ground_truth]

PrivateCompetitions ==
    {WithPrivate(Competition("CLASSIFICATION", "ACCURACY", Some(GoodGt), None), g) :
        g \in {None, Some(GoodGt), Some(Unreadable)}}
    \cup {WithPrivate(Competition("CLASSIFICATION", "CUSTOM", Some(GoodGt), script),
                      Some(GoodGt)) :
             script \in {None,
                         Some(FunctionScript(TRUE, TRUE, GoodResult)),
                         Some(FunctionScript(TRUE, TRUE,
                                  Returned("dict", None, None,
                                           Some([matches |-> 3, total |-> 5]), None, None))),
                         Some(ClassScript(FALSE, FALSE, FALSE, GoodResult)),
                         Some(ClassScript(FALSE, FALSE, TRUE, GoodResult)),
                         Some(Script(TRUE, FALSE, FALSE, FALSE, NoClass, NoFunction))}}
    \cup {WithPrivate(Competition("KEYPOINTS", "ACCURACY", Some(GoodGt), None),
                      Some(GoodGt))}

\* a submission as score_submission or the upload left it
ScoredBefore(prediction_file, status, is_final_selection) ==
    [Submission(prediction_file)
        EXCEPT !.status = status,
               !.public_score = IF status = "SUCCESS" THEN Some(500000) ELSE None,
               !.scored_at = IF status = "SUCCESS" THEN Some(0) ELSE None,
               !.error_message = IF status = "FAILED" THEN Msg("Unknown error", {})
                                 ELSE Msg("", {}),
               !.is_final_selection = is_final_selection]

InitPrivate ==
    /\ engine = None
    /\ mem = Mem0
    /\ outcomes = <<>>
    /\ argv = None
    /\ \E competition \in PrivateCompetitions :
          db \in [competition : {competition},
                  submissions : [1..2 -> {ScoredBefore(f, status, final) :
                                                   f \in TaskPredFiles(competition),
                                             status \in {"SUCCESS", "FAILED"},
                                             final \in BOOLEAN}],
                  logs : {<<>>}]

ScorePrivateSubmissions ==
    /\ outcomes = <<>>
    /\ \E competition_id \in 1..2 :
          LET Done(b) ==
                  /\ db' = b.db
                  /\ outcomes' = <<[call |-> "score_private_submissions",
                                    competition_id |-> competition_id,
                                    before |-> db,
                                    ret |-> b.ret, raised |-> b.raised, runs |-> b.runs]>>
          IN Done(score_private_submissions(db, competition_id))
    /\ UNCHANGED <<engine, mem, argv>>

NextPrivate == ScorePrivateSubmissions

SpecPrivate == InitPrivate /\ [][NextPrivate]_vars

---------------------------------------------------------------------------
(* competitions/views.py: set_final_selection.  Two requests are in flight; *)
(* each is served by its own worker, statement by statement: the lookup of   *)
(* the submission, the UPDATE that clears the user's final selections, the   *)
(* save that sets the new one.  The statements of different requests         *)
(* interleave in any order (no transaction, no lock, no unique constraint).  *)

Requests == {"a", "b"}

Users == {1, 2}

\* a submission of a user, scored before or failed, final selection or not
Owned(user, status, is_final_selection) ==
    [ScoredBefore(Unreadable, status, is_final_selection) EXCEPT !.user = user]

\* the final selections of a user in a competition
FinalSelections(d, competition, user) ==
    {i \in DOMAIN d.submissions :
        /\ d.submissions[i].competition = competition
        /\ d.submissions[i].user = user
        /\ d.submissions[i].is_final_selection}

\* submissions 1 and 2 are of user 1, submission 3 is of user 2; a final
\* selection was SUCCESS when it was selected, and a user has at most one
InitFinal ==
    /\ engine = None
    /\ mem = Mem0
    /\ outcomes = <<>>
    /\ argv \in [Requests -> [user : Users, submission_id : 1..4, at : {"received"},
                              submission : {None}]]
    /\ db \in [competition : {Competition("CLASSIFICATION", "ACCURACY", Some(GoodGt), None)},
                submissions : {rows \in [1..3 -> {Owned(u, st, f) : u \in Users,
                                                      st \in {"SUCCESS", "FAILED"},
                                                      f \in BOOLEAN}] :
                                  /\ rows[1].user = 1 /\ rows[2].user = 1 /\ rows[3].user = 2
                                  /\ \A i \in 1..3 : rows[i].is_final_selection =>
                                                         rows[i].status = "SUCCESS"
                                  /\ ~(rows[1].is_final_selection
                                         /\ rows[2].is_final_selection)},
                logs : {<<>>}]

Responded(r, status_code) ==
    outcomes' = Append(outcomes, [call |-> "set_final_selection", request |-> r,
                                  status_code |-> status_code])

\* get_object_or_404(Submission, id=submission_id, user=request.user, status=SUCCESS)
set_final_selection_get(r) ==
    /\ argv[r].at = "received"
    /\ IF /\ argv[r].submission_id \in DOMAIN db.submissions
          /\ db.submissions[argv[r].submission_id].user = argv[r].user
          /\ db.submissions[argv[r].submission_id].status = "SUCCESS"
       THEN /\ argv' = [argv EXCEPT ![r].at = "found",
                                    ![r].submission =
                                        Some(db.submissions[argv[r].submission_id])]
            /\ UNCHANGED outcomes
       ELSE /\ argv' = [argv EXCEPT ![r].at = "done"]
            /\ Responded(r, 404)
    /\ UNCHANGED <<engine, mem, db>>

\* Submission.objects.filter(competition=..., user=request.user,
\* is_final_selection=True).update(is_final_selection=False)
set_final_selection_clear(r) ==
    /\ argv[r].at = "found"
    /\ db' = [db EXCEPT !.submissions =
                 [i \in DOMAIN @ |->
                     IF i \in FinalSelections(db, Get(argv[r].submission).competition,
                                              argv[r].user)
                     THEN [@[i] EXCEPT !.is_final_selection = FALSE]
                     ELSE @[i]]]
    /\ argv' = [argv EXCEPT ![r].at = "cleared"]
    /\ UNCHANGED <<engine, mem, outcomes>>

\* submission.is_final_selection = True; submission.save(update_fields=[...])
set_final_selection_save(r) ==
    /\ argv[r].at = "cleared"
    /\ db' = [db EXCEPT !.submissions[argv[r].submission_id].is_final_selection = TRUE]
    /\ argv' = [argv EXCEPT ![r].at = "done"]
    /\ Responded(r, 200)
    /\ UNCHANGED <<engine, mem>>

NextFinal ==
    \E r \in Requests :
        \/ set_final_selection_get(r)
        \/ set_final_selection_clear(r)
        \/ set_final_selection_save(r)

SpecFinal == InitFinal /\ [][NextFinal]_vars

---------------------------------------------------------------------------
(* competitions/views.py: upload_prediction.  Two requests are in flight,   *)
(* each served by its own worker: the two COUNT queries, then the checks,    *)
(* the INSERT of the submission, the header check and the queueing of the    *)
(* scoring task.  The steps of different requests interleave in any order,   *)
(* and the day may change between them.  The database is [competition,       *)
(* submissions, logs, queue, today].                                         *)

MaxDays == 2

\* Submission.get_today_count and Submission.get_total_count
get_today_count(d, user) ==
    Cardinality({i \in DOMAIN d.submissions :
                    /\ d.submissions[i].user = user
                    /\ d.submissions[i].submitted_at = d.today})

get_total_count(d, user) ==
    Cardinality({i \in DOMAIN d.submissions : d.submissions[i].user = user})

get_expected_columns(competition) ==
    CASE competition.task_type = "CLASSIFICATION" -> <<"image_id", "label">>
      [] competition.task_type = "DETECTION" ->
            <<"image_id", "class_id", "confidence", "xmin", "ymin", "xmax", "ymax">>
      [] competition.task_type = "SEGMENTATION" -> <<"image_id", "class_id", "rle">>
      [] OTHER -> <<>>

\* [c for c in expected_cols if c not in df.columns]
missing_cols(competition, df) ==
    SelectSeq(get_expected_columns(competition), LAMBDA c : c \notin Range(df.columns))

\* what the handler does once the counts are read: the response, and the
\* database with the submission it created, if any
Uploaded(d, response, submission) == [db |-> d, response |-> response,
                                      submission |-> submission]

Rejected(d, error) == Uploaded(d, [success |-> FALSE, error |-> error], None)

\* the header check on the submission created as row id of d
upload_prevalidated(d, id, file) ==
    IF ~file.readable
    THEN Uploaded([d EXCEPT !.submissions[id].status = "FAILED",
                            !.submissions[id].error_message = Msg("Invalid CSV file: {}", {})],
                  [success |-> FALSE, error |-> Msg("Invalid CSV file: {}", {})], Some(id))
    ELSE IF missing_cols(d.competition, file.df) # <<>>
    THEN Uploaded(add_submission_log(
                      [d EXCEPT !.submissions[id].status = "FAILED",
                                !.submissions[id].error_message =
                                    Msg("Missing columns",
                                        Range(missing_cols(d.competition, file.df)))],
                      id,
                      Msg("CSV Validation failed: Missing columns",
                          Range(missing_cols(d.competition, file.df))),
                      "ERROR"),
                  [success |-> FALSE,
                   error |-> Msg("Invalid CSV format: Missing columns",
                                 Range(missing_cols(d.competition, file.df)))],
                  Some(id))
    ELSE Uploaded([d EXCEPT !.queue = Append(@, id)],
                  [success |-> TRUE, error |-> Msg("", {})], Some(id))

upload_checked(d, q) ==
    IF q.today_count >= d.competition.daily_upload_limit
    THEN Rejected(d, Msg("Daily upload limit reached", {}))
    ELSE IF q.total_count >= d.competition.total_upload_limit
    THEN Rejected(d, Msg("Total upload limit reached", {}))
    ELSE IF ~q.in_window
    THEN Rejected(d, Msg("Not within participation time window", {}))
    ELSE IF q.prediction_file = None
    THEN Rejected(d, Msg("Please select a file", {}))
    ELSE IF ~Get(q.prediction_file).csv
    THEN Rejected(d, Msg("Please upload a CSV file", {}))
    ELSE upload_prevalidated(
             [d EXCEPT !.submissions =
                 Append(@, [Submission(Get(q.prediction_file).file)
                               EXCEPT !.user = q.user, !.submitted_at = d.today])],
             Len(d.submissions) + 1, Get(q.prediction_file).file)

\* the ground truths of the competitions, by task type
UploadCompetitions ==
    {[Competition(c[1], c[2], Some(c[3]), None)
         EXCEPT !.daily_upload_limit = l[1], !.total_upload_limit = l[2]] :
        c \in {<<"CLASSIFICATION", "ACCURACY", GoodGt>>,
               <<"CLASSIFICATION", "ACCURACY",
                 File(TRUE, Table(<<"image_id", "label">>,
                                  <<[image_id |-> 1, label |-> "cat"]>>))>>,
               <<"DETECTION", "MAP",
                 File(TRUE, Table(DetColumns, <<DetRow(1, "car", BoxA)>>))>>,
               <<"SEGMENTATION", "MIOU",
                 File(TRUE, Table(SegColumns,
                                  <<SegRow(1, "sky", Rle("text", <<1, 2>>), 1, 2)>>))>>},
        l \in {<<1, 1>>, <<1, 2>>, <<2, 2>>}}

\* REQUIRED_COLUMNS of the competition's engine once its ground truth is loaded
EngineRequired(competition) ==
    load_ground_truth(Get(get_scoring_engine(competition, None).engine),
                      Mem0).o.REQUIRED_COLUMNS

Csv(columns) == [csv |-> TRUE, file |-> File(TRUE, Table(columns, <<>>))]

\* what a request brings: the participant row found or not, the time inside
\* the window or not, and the file
UploadInputs(competition) ==
    {[participant |-> FALSE, in_window |-> TRUE,
      prediction_file |-> Some(Csv(EngineRequired(competition)))],
     [participant |-> TRUE, in_window |-> FALSE,
      prediction_file |-> Some(Csv(EngineRequired(competition)))],
     [participant |-> TRUE, in_window |-> TRUE, prediction_file |-> None],
     [participant |-> TRUE, in_window |-> TRUE,
      prediction_file |-> Some([csv |-> FALSE, file |-> Unreadable])],
     [participant |-> TRUE, in_window |-> TRUE,
      prediction_file |-> Some([csv |-> TRUE, file |-> Unreadable])]}
    \cup {[participant |-> TRUE, in_window |-> TRUE, prediction_file |-> Some(Csv(columns))] :
             columns \in {EngineRequired(competition), get_expected_columns(competition),
                          <<"wrong_id", "wrong_label">>}}

Received(user, input) ==
    input @@ [user |-> user, at |-> "received", today_count |-> 0, total_count |-> 0]

InitUpload ==
    /\ engine = None
    /\ mem = Mem0
    /\ outcomes = <<>>
    /\ \E competition \in UploadCompetitions :
          /\ db = [competition |-> competition, submissions |-> <<>>, logs |-> <<>>,
                   queue |-> <<>>, today |-> 1]
          /\ argv \in [Requests -> {Received(u, i) : u \in Users,
                                                     i \in UploadInputs(competition)}]
          /\ argv["a"].user = 1

UploadResponded(r, response, submission) ==
    outcomes' = Append(outcomes, [call |-> "upload_prediction", request |-> r,
                                  response |-> response, submission |-> submission])

\* get_object_or_404(CompetitionParticipant, ...), then the two counts
upload_prediction_count(r) ==
    /\ argv[r].at = "received"
    /\ IF ~argv[r].participant
       THEN /\ argv' = [argv EXCEPT ![r].at = "done"]
            /\ UploadResponded(r, [success |-> FALSE, error |-> Msg("404", {})], None)
       ELSE /\ argv' = [argv EXCEPT ![r].at = "counted",
                                    ![r].today_count = get_today_count(db, argv[r].user),
                                    ![r].total_count = get_total_count(db, argv[r].user)]
            /\ UNCHANGED outcomes
    /\ UNCHANGED <<engine, mem, db>>

\* the checks, Submission.objects.create, the header check, async_task
upload_prediction_create(r) ==
    /\ argv[r].at = "counted"
    /\ LET Done(u) ==
               /\ db' = u.db
               /\ UploadResponded(r, u.response, u.submission)
       IN Done(upload_checked(db, argv[r]))
    /\ argv' = [argv EXCEPT ![r].at = "done"]
    /\ UNCHANGED <<engine, mem>>

Midnight ==
    /\ db.today < MaxDays
    /\ db' = [db EXCEPT !.today = @ + 1]
    /\ UNCHANGED <<engine, mem, outcomes, argv>>

NextUpload ==
    \/ \E r \in Requests : upload_prediction_count(r) \/ upload_prediction_create(r)
    \/ Midnight

SpecUpload == InitUpload /\ [][NextUpload]_vars

---------------------------------------------------------------------------
(* Properties of score() *)

Returned_(i) == outcomes[i].raised = None
Res(i) == Get(outcomes[i].result)
Entered(i, method) == method \in Range(outcomes[i].trace)
\* a log line as the caller reads it
Text(l) == [level |-> l.level, text |-> l.text, args |-> l.args]
LogTexts(i) == [k \in DOMAIN outcomes[i].logs_at_return |-> Text(outcomes[i].logs_at_return[k])]

\* C1: no exception propagates out of score(): every call, on every engine
\* type and with any inputs, returns a ScoringResult.
C1_NeverRaises == \A i \in DOMAIN outcomes : Returned_(i)

MinColumns(engine_type) ==
    CASE engine_type = "classification" -> 2
      [] engine_type = "detection" -> 6
      [] engine_type = "segmentation" -> 5
      [] OTHER -> 0

GtUnloadable ==
    \/ ~engine.ground_truth_path.readable
    \/ Len(engine.ground_truth_path.df.columns) < MinColumns(engine.engine_type)

\* C2: when the ground truth cannot be loaded (unreadable, or fewer columns than
\* the task requires) every score() call on the instance fails fast: it returns
\* success=false with "Failed to load ground truth" and enters neither
\* validate_prediction_format nor calculate_score.
C2_FailsFast ==
    GtUnloadable =>
        \A i \in DOMAIN outcomes :
            /\ Returned_(i)
            /\ ~Res(i).success
            /\ Res(i).error_message = Some(Msg("Failed to load ground truth", {}))
            /\ ~Entered(i, "validate_prediction_format")
            /\ ~Entered(i, "calculate_score")

\* C3: two score() calls with identical inputs on a fresh instance return
\* identical results: success, score, metrics, error_message and logs.
C3_Idempotent ==
    (Len(outcomes) >= 2 /\ outcomes[1].prediction = outcomes[2].prediction) =>
        /\ Returned_(1) /\ Returned_(2)
        /\ Res(1).success = Res(2).success
        /\ Res(1).score = Res(2).score
        /\ Res(1).metrics = Res(2).metrics
        /\ Res(1).error_message = Res(2).error_message
        /\ LogTexts(1) = LogTexts(2)

\* C4: a result with success = true carries a non-null score.
C4_SuccessHasScore ==
    \A i \in DOMAIN outcomes :
        (Returned_(i) /\ Res(i).success) => Res(i).score # None

\* C5: the logs of a successful result are the lines the call logged, each
\* exactly once, in the order they were logged (followed by the lines the
\* scorer's own result carried).
C5_LogsOnceInOrder ==
    \A i \in DOMAIN outcomes :
        (Returned_(i) /\ Res(i).success) =>
            SelectSeq(outcomes[i].logs_at_return, LAMBDA l : l.level # "")
                = outcomes[i].emitted

\* C6: the log buffer is reset at the start of each score() call: the logs of
\* the k-th result hold no line logged during an earlier call, and a result
\* already returned is not changed by a later call.
C6_LogsReset ==
    \A i \in DOMAIN outcomes :
        Returned_(i) =>
            /\ \A k \in DOMAIN outcomes[i].logs_at_return :
                   outcomes[i].logs_at_return[k].call = i
            /\ LogsOrEmpty(mem, Res(i).logs) = outcomes[i].logs_at_return

\* the column check of this repository ran (not an operator's override of it)
ColumnCheckRan(i) ==
    /\ Entered(i, "validate_prediction_format")
    /\ ~(engine.engine_type = "custom" /\ engine.scorer_instance # None
         /\ engine.script_path.cls.validate_raises)

Lacking(i) == Range(outcomes[i].required) \ Range(outcomes[i].prediction.df.columns)

\* C7: when the loaded prediction table lacks a currently required column,
\* score() raises nothing and returns success=false with an error message that
\* names exactly the missing required columns, and calculate_score is not
\* entered.
C7_MissingColumnsRejected ==
    \A i \in DOMAIN outcomes :
        (ColumnCheckRan(i) /\ Lacking(i) # {}) =>
            /\ Returned_(i)
            /\ ~Res(i).success
            /\ Res(i).error_message = Some(Msg("Missing required columns", Lacking(i)))
            /\ ~Entered(i, "calculate_score")

C7_Witness ==
    \E i \in DOMAIN outcomes :
        /\ ColumnCheckRan(i)
        /\ Lacking(i) # {}
        /\ Lacking(i) # Range(outcomes[i].required)
        /\ Returned_(i) /\ ~Res(i).success

\* the prediction table of call i has two rows with the same value in the
\* identifier column detected from the ground truth
DuplicateIds(i) ==
    /\ outcomes[i].prediction.readable
    /\ engine.id_column # None
    /\ Get(engine.id_column) \in Range(outcomes[i].prediction.df.columns)
    /\ LET rows == outcomes[i].prediction.df.rows
           id == Get(engine.id_column)
       IN \E a, b \in DOMAIN rows : a # b /\ rows[a][id] = rows[b][id]

FormatErrors == {"Prediction contains duplicate {} values", "Missing required columns"}

\* C9: the classification engine rejects a prediction table with duplicate
\* identifier values: score() returns success=false with a format-validation
\* error message and computes no score.
C9_DuplicateIdsRejected ==
    engine.engine_type = "classification" =>
        \A i \in DOMAIN outcomes :
            DuplicateIds(i) =>
                /\ Returned_(i)
                /\ ~Res(i).success
                /\ Res(i).score = None
                /\ Get(Res(i).error_message).text \in FormatErrors
                /\ ~Entered(i, "calculate_score")

C9_Witness ==
    /\ engine.engine_type = "classification"
    /\ \E i \in DOMAIN outcomes :
          /\ DuplicateIds(i)
          /\ Lacking(i) = {}
          /\ Returned_(i) /\ ~Res(i).success

---------------------------------------------------------------------------
(* Properties of the classification metrics *)

GtRows == engine.ground_truth_path.df.rows
PredRows(i) == outcomes[i].prediction.df.rows
Scored(i) == Returned_(i) /\ Res(i).success /\ engine.engine_type = "classification"

\* ground-truth rows with a prediction row of the same identifier and label
CorrectRows(i) ==
    {g \in DOMAIN GtRows :
        \E p \in DOMAIN PredRows(i) : /\ PredRows(i)[p].id = GtRows[g].id
                                      /\ PredRows(i)[p].label = GtRows[g].label}
\* ground-truth rows with no prediction row of the same identifier
UnmatchedRows(i) ==
    {g \in DOMAIN GtRows : \A p \in DOMAIN PredRows(i) : PredRows(i)[p].id # GtRows[g].id}

\* C8: with unique identifiers on both sides, ACCURACY is the number of
\* ground-truth rows that have a prediction row with the same identifier and
\* an equal label, divided by the number of ground-truth rows (so a row without
\* a prediction is incorrect whatever its label, and predictions for unknown
\* identifiers change nothing), and missing_predictions is the number of
\* ground-truth rows without a prediction row.
C8_Accuracy ==
    \A i \in DOMAIN outcomes :
        Scored(i) =>
            /\ Get(Res(i).metrics).ACCURACY
                   = round6(Rat(Cardinality(CorrectRows(i)), Len(GtRows)))
            /\ Get(Res(i).metrics).missing_predictions = Cardinality(UnmatchedRows(i))

\* C10: the score of the classification engine is the value stored in metrics
\* under the requested metric type when metrics has that key, and under
\* "ACCURACY" when it has not.
C10_ScoreIsRequestedMetric ==
    \A i \in DOMAIN outcomes :
        Scored(i) =>
            LET metrics == Get(Res(i).metrics)
            IN Res(i).score = Some(IF engine.metric_type \in DOMAIN metrics
                                   THEN metrics[engine.metric_type]
                                   ELSE metrics["ACCURACY"])

C10_Witness ==
    \E i \in DOMAIN outcomes :
        /\ Scored(i)
        /\ engine.metric_type = "F1"
        /\ Get(Res(i).metrics).F1 # Get(Res(i).metrics).ACCURACY
        /\ Res(i).score = Some(Get(Res(i).metrics).F1)

---------------------------------------------------------------------------
(* Properties of the detection matching and of Average Precision *)

ApCall == outcomes[1]
ClassGts == ClassRows(engine, Get(engine.ground_truth_df), argv.class_label)
ClassPreds == ClassRows(engine, argv.pred_df, argv.class_label)

\* C11: in per-class detection matching each ground-truth box is marked
\* matched by at most one prediction: after any prefix of the predictions of
\* the class, in confidence order, the number of true positives is at most the
\* number of ground-truth boxes of the class (recall is at most 1), and true
\* positives plus false positives is the number of predictions processed.
C11_MatchedAtMostOnce ==
    outcomes # <<>> =>
        LET tp == CumSum(ApCall.loop.tp)
            fp == CumSum(ApCall.loop.fp)
            marks == ApCall.loop.marks
        IN /\ \A i, j \in DOMAIN marks : marks[i] = marks[j] => i = j
           /\ \A k \in DOMAIN tp : /\ tp[k] <= Len(ClassGts)
                                    /\ tp[k] + fp[k] = k
           /\ (ClassGts # <<>> /\ ClassPreds # <<>>) => Len(tp) = Len(ClassPreds)

\* two predictions of the class lie on the only ground-truth box, and the
\* second one is a false positive
C11_Witness ==
    /\ outcomes # <<>>
    /\ Len(ClassGts) = 1 /\ Len(ClassPreds) = 2
    /\ \A i \in DOMAIN ClassPreds :
          /\ ClassPreds[i].image_id = ClassGts[1].image_id
          /\ Box(engine, ClassPreds[i]) = Box(engine, ClassGts[1])
    /\ ApCall.loop.tp = <<1, 0>> /\ ApCall.loop.fp = <<0, 1>>

\* the predictions of the class in the order they are processed
Processed == SortByConfidence(ClassPreds)

\* the ground-truth boxes marked matched before the k-th prediction is processed
MatchedBefore(k) ==
    {ApCall.loop.marks[i] :
        i \in 1..(IF k = 1 THEN 0 ELSE CumSum(ApCall.loop.tp)[k - 1])}

\* the ground-truth boxes of the class in the k-th prediction's image
SameImage(k) == {g \in DOMAIN ClassGts : ClassGts[g].image_id = Processed[k].image_id}

\* the value calculate_iou returns for the k-th prediction and box g
IouWith(k, g) ==
    LET Float(r) == FOfRatio(r.n, r.d)
    IN Float(calculate_iou(Box(engine, Processed[k]), Box(engine, ClassGts[g])))

\* C26: processing a class's predictions in descending confidence order, a
\* prediction is a true positive if and only if, at the moment it is
\* processed, its image has at least one not-yet-matched ground-truth box of
\* that class whose IoU with it is >= the threshold; the box then marked
\* matched is one with the highest IoU among the unmatched boxes of that
\* image; a prediction in an image with no ground-truth box of the class is
\* always a false positive, and a false positive never marks any box matched.
C26_TruePositiveRule ==
    (outcomes # <<>> /\ ClassGts # <<>> /\ ClassPreds # <<>>) =>
        LET tp == ApCall.loop.tp
            fp == ApCall.loop.fp
            marks == ApCall.loop.marks
            Marked(k) == marks[CumSum(tp)[k]]
        IN /\ Len(tp) = Len(Processed) /\ Len(fp) = Len(Processed)
           /\ Len(marks) = CumSum(tp)[Len(tp)]
           /\ \A k \in DOMAIN Processed :
                 /\ k > 1 => Processed[k - 1].confidence >= Processed[k].confidence
                 /\ tp[k] + fp[k] = 1
                 /\ (tp[k] = 1) =
                       (\E g \in SameImage(k) \ MatchedBefore(k) :
                           FLe(argv.iou_threshold, IouWith(k, g)))
                 /\ tp[k] = 1 =>
                       /\ Marked(k) \in SameImage(k) \ MatchedBefore(k)
                       /\ \A h \in SameImage(k) \ MatchedBefore(k) :
                             FLe(IouWith(k, h), IouWith(k, Marked(k)))
                 /\ SameImage(k) = {} => fp[k] = 1

\* image 1 has the boxes A and B (half of A); the prediction on B comes first
\* and takes B, its best box; the prediction on A then takes A.  At threshold
\* 0.5 both are true positives, the first with a box of IoU exactly 0.5 left
\* aside.
C26_Witness ==
    /\ outcomes # <<>>
    /\ argv.iou_threshold = FOfRatio(1, 2)
    /\ Len(ClassGts) = 2 /\ Len(ClassPreds) = 2
    /\ Box(engine, ClassGts[1]) = BoxA /\ Box(engine, ClassGts[2]) = BoxB
    /\ ClassGts[1].image_id = 1 /\ ClassGts[2].image_id = 1
    /\ Processed[1].image_id = 1 /\ Box(engine, Processed[1]) = BoxB
    /\ Processed[2].image_id = 1 /\ Box(engine, Processed[2]) = BoxA
    /\ ApCall.loop.tp = <<1, 1>>
    /\ ApCall.loop.marks = <<2, 1>>

\* the predictions of the class are the ground-truth boxes of the class, one
\* prediction on each box: same image, same box (IoU 1.0)
PerfectMatch ==
    /\ ClassGts # <<>>
    /\ \E f \in [DOMAIN ClassPreds -> DOMAIN ClassGts] :
          /\ \A i, j \in DOMAIN ClassPreds : f[i] = f[j] => i = j
          /\ \A g \in DOMAIN ClassGts : \E i \in DOMAIN ClassPreds : f[i] = g
          /\ \A i \in DOMAIN ClassPreds :
                /\ ClassPreds[i].image_id = ClassGts[f[i]].image_id
                /\ calculate_iou(Box(engine, ClassPreds[i]), Box(engine, ClassGts[f[i]]))
                       = Rat(1, 1)

\* C12: the per-class AP at a threshold t <= 1 is 1.0 when every ground-truth
\* box of the class is matched by exactly one prediction of the class in the
\* same image with IoU 1.0 and the class has no other prediction.
C12_PerfectMatchAp ==
    (outcomes # <<>> /\ PerfectMatch /\ FLe(argv.iou_threshold, F1)) => ApCall.ret = F1

---------------------------------------------------------------------------
(* Properties of calculate_iou *)

Float1 == [neg |-> FALSE, abs |-> F1]

\* C13: for every box, calculate_iou(box, box) == 1.0.
C13_SelfIouIsOne ==
    (outcomes # <<>> /\ argv.box1 = argv.box2) => outcomes[1].ret = Float1

ProperBox(box) == box[1] < box[3] /\ box[2] < box[4]

\* C13, amended: for every box with xmin < xmax and ymin < ymax,
\* calculate_iou(box, box) == 1.0.
C13_SelfIouOfProperBox ==
    (outcomes # <<>> /\ argv.box1 = argv.box2 /\ ProperBox(argv.box1))
        => outcomes[1].ret = Float1

C13_Witness ==
    /\ outcomes # <<>>
    /\ argv.box1 = <<0, 1, 2, 2>> /\ argv.box2 = argv.box1
    /\ outcomes[1].ret = Float1

\* the boxes have a common region of positive width and height
Overlap(box1, box2) ==
    /\ Max(box1[1], box2[1]) < Min(box1[3], box2[3])
    /\ Max(box1[2], box2[2]) < Min(box1[4], box2[4])

SignedArea(box) == (box[3] - box[1]) * (box[4] - box[2])

\* area1 + area2 - intersection, the intersection being that of the common region
UnionOf(box1, box2) ==
    SignedArea(box1) + SignedArea(box2)
      - (IF Overlap(box1, box2)
         THEN (Min(box1[3], box2[3]) - Max(box1[1], box2[1]))
                * (Min(box1[4], box2[4]) - Max(box1[2], box2[2]))
         ELSE 0)

\* C27: calculate_iou returns a value between 0 and 1 inclusive for every
\* pair of 4-tuples of numbers, including degenerate (zero-area) and inverted
\* (xmax < xmin or ymax < ymin) boxes; it returns 0 whenever the boxes do not
\* overlap or the union is 0.
C27_IouRange ==
    outcomes # <<>> =>
        /\ ~outcomes[1].ret.neg
        /\ FLe(F0, outcomes[1].ret.abs) /\ FLe(outcomes[1].ret.abs, F1)
        /\ (~Overlap(argv.box1, argv.box2) \/ UnionOf(argv.box1, argv.box2) = 0)
              => outcomes[1].ret.abs = F0

\* a unit box and a box with xmax < xmin of signed area -4: no overlap, the
\* union is -3, and the value is 0
C27_Witness ==
    /\ outcomes # <<>>
    /\ argv.box1 = <<0, 0, 1, 1>> /\ argv.box2 = <<2, 0, 0, 2>>
    /\ UnionOf(argv.box1, argv.box2) = -3
    /\ outcomes[1].ret.abs = F0

---------------------------------------------------------------------------
(* Properties of the RLE codec and of the mask IoU *)

\* C14: rle_decode(rle_encode(M), h, w) == M for every binary mask M of
\* height h and width w, the all-zero mask, the all-one mask and masks whose
\* runs cross row boundaries included.
C14_RleRoundTrip ==
    Len(outcomes) = 2 => outcomes[2].ret = argv.mask

\* a 2 x 5 mask whose first run goes from row 1 into row 2 and whose second
\* run starts at pixel 10
C14_Witness ==
    /\ Len(outcomes) = 2
    /\ argv.height = 2 /\ argv.width = 5
    /\ argv.mask = <<0, 0, 0, 1, 1, 1, 1, 0, 0, 1>>
    /\ outcomes[1].ret = <<"4", " ", "4", " ", "1", "0", " ", "1">>
    /\ outcomes[2].ret = argv.mask

Pixels(mask) == {i \in DOMAIN mask : mask[i] = 1}

\* C15: calculate_mask_iou of two binary masks of one shape is 1.0 when both
\* are empty, 0.0 when both are non-empty and disjoint, and the number of
\* common pixels over the number of pixels of the union otherwise; it gives
\* the same for both orders of the masks and lies in [0, 1].
C15_MaskIou ==
    /\ \A k \in DOMAIN outcomes :
          LET p1 == Pixels(argv.mask1)
              p2 == Pixels(argv.mask2)
              ret == outcomes[k].ret
          IN /\ (p1 = {} /\ p2 = {}) => ret = Float1
             /\ (p1 # {} /\ p2 # {} /\ p1 \cap p2 = {}) => ret = [neg |-> FALSE, abs |-> F0]
             /\ (p1 \cup p2 # {}) =>
                   ret = [neg |-> FALSE,
                          abs |-> FOfRatio(Cardinality(p1 \cap p2), Cardinality(p1 \cup p2))]
             /\ ~ret.neg /\ FLe(F0, ret.abs) /\ FLe(ret.abs, F1)
    /\ \A j, k \in DOMAIN outcomes : outcomes[j].ret = outcomes[k].ret

\* both orders were computed on masks of three and two pixels sharing one
C15_Witness ==
    /\ Len(outcomes) = 2
    /\ argv.mask1 = <<1, 1, 1, 0>> /\ argv.mask2 = <<0, 0, 1, 1>>
    /\ outcomes[1].ret.abs = FOfRatio(1, 4)
    /\ outcomes[2].ret.abs = FOfRatio(1, 4)

---------------------------------------------------------------------------
(* Properties of the segmentation score *)

SegGtRows == Get(engine.ground_truth_df).rows
SegClasses == {SegGtRows[g].class : g \in DOMAIN SegGtRows}

\* the prediction rows of the ground-truth row's (identifier, class)
RowsFor(prediction_df, gt_row) ==
    SelectSeq(prediction_df.rows,
              LAMBDA r : r.image_id = gt_row.image_id /\ r.class = gt_row.class)

\* what a ground-truth row contributes: without a prediction row 0.0 for a
\* mask with pixels and 1.0 for an empty mask, and the IoU with the mask of
\* its (last) prediction row otherwise
Contribution(prediction_df, gt_row) ==
    LET gt_mask == rle_decode(gt_row.rle_mask, gt_row.height, gt_row.width)
        rows == RowsFor(prediction_df, gt_row)
    IN IF rows = <<>>
       THEN (IF Pixels(gt_mask) = {} THEN Rat(1, 1) ELSE RZero)
       ELSE LET pred_mask == rle_decode(rows[Len(rows)].rle_mask,
                                        gt_row.height, gt_row.width)
            IN IF Pixels(gt_mask) \cup Pixels(pred_mask) = {} THEN Rat(1, 1)
               ELSE Rat(Cardinality(Pixels(gt_mask) \cap Pixels(pred_mask)),
                        Cardinality(Pixels(gt_mask) \cup Pixels(pred_mask)))

MeanOfClassMeans(prediction_df) ==
    LET ClassMean(c) ==
            LET rows == SelectSeq(SegGtRows, LAMBDA r : r.class = c)
            IN RMean([i \in DOMAIN rows |-> Contribution(prediction_df, rows[i])])
        classes == SeqOfSet(SegClasses)
    IN RMean([k \in DOMAIN classes |-> ClassMean(classes[k])])

\* C16: in segmentation scoring a ground-truth row whose (identifier, class)
\* has no prediction row is compared with an all-zero mask: it contributes
\* IoU 0.0 when its mask has pixels and 1.0 when it is empty.  The score is
\* the mean over the ground-truth classes of the per-class mean of the row
\* IoUs (to 6 decimals), and prediction rows whose (identifier, class) is not
\* in the ground truth do not change it.
C16_SegmentationScore ==
    /\ \A k \in DOMAIN outcomes :
          /\ outcomes[k].raised = None
          /\ outcomes[k].ret.success
          /\ outcomes[k].ret.score
                = Some(round6(MeanOfClassMeans(outcomes[k].prediction_df)))
    /\ Len(outcomes) = 2 => outcomes[2].ret.score = outcomes[1].ret.score

\* ground truth: sky in image 1 (two pixels) and an empty sea mask in image 1;
\* predictions: only rows of an unknown image and of an unknown class: sky
\* gives 0.0, sea gives 1.0, the score is 0.5 with and without these rows
C16_Witness ==
    /\ Len(outcomes) = 2
    /\ SegGtRows = <<SegRow(1, "sky", Rle("text", <<1, 2>>), 1, 2),
                     SegRow(1, "sea", Rle("text", <<>>), 1, 2)>>
    /\ argv.prediction_df.rows = <<SegPred(3, "sky", Rle("text", <<1, 1>>)),
                                   SegPred(1, "ice", Rle("text", <<1, 2>>))>>
    /\ outcomes[2].prediction_df.rows = <<>>
    /\ outcomes[1].ret.score = Some(round6(Rat(1, 2)))
    /\ outcomes[2].ret.score = Some(round6(Rat(1, 2)))

---------------------------------------------------------------------------
(* Properties of the custom engine *)

TheScript == engine.script_path

\* the calculate_score calls in which the script's function returned
FunctionReturned(k) ==
    /\ "call" \in DOMAIN outcomes[k]
    /\ outcomes[k].call = "calculate_score"
    /\ TheScript.exists /\ ~TheScript.body_raises
    /\ ~TheScript.has_class /\ TheScript.has_function
    /\ TheScript.fn.accepts_kwargs
    /\ TheScript.fn.returns.kind # "raise"

Texts(lines) == [i \in DOMAIN lines |-> lines[i].text]

\* C17: for a script defining the free function calculate_score, what the
\* function returns is adapted by calculate_score: a ScoringResult is passed
\* through unchanged; a bare number x gives success=true with score x; a
\* mapping gives success = mapping.success (true when absent), score, metrics
\* and error_message of the mapping, and logs = the engine's logs followed by
\* the mapping's logs; any other shape gives success=false with an error
\* message, and no exception.
C17_ReturnShapes ==
    \A k \in DOMAIN outcomes :
        FunctionReturned(k) =>
            LET b == TheScript.fn.returns
                res == outcomes[k].ret.value
                given == IF b.logs = None THEN <<>> ELSE Get(b.logs)
            IN /\ outcomes[k].raised = None
               /\ b.kind = "ScoringResult" =>
                     /\ res.success = Get(b.success) /\ res.score = b.score
                     /\ res.metrics = b.metrics /\ res.error_message = b.error_message
                     /\ (b.logs = None) = (res.logs = None)
                     /\ Texts(outcomes[k].logs_at_return) = given
               /\ b.kind = "number" => res.success /\ res.score = b.score
               /\ b.kind = "dict" =>
                     /\ res.success = (IF b.success = None THEN TRUE ELSE Get(b.success))
                     /\ res.score = b.score /\ res.metrics = b.metrics
                     /\ res.error_message = b.error_message
                     /\ Texts(outcomes[k].logs_at_return)
                           = Texts(outcomes[k].engine_logs) \o given
               /\ b.kind = "other" => ~res.success /\ res.error_message # None

\* score(), then calculate_score on the same instance, of a function that
\* returns a mapping with logs and without "success": the returned logs are
\* the engine's, then the mapping's line
C17_Witness ==
    /\ Len(outcomes) = 2
    /\ "prediction" \in DOMAIN outcomes[1]
    /\ FunctionReturned(2)
    /\ TheScript.fn.returns.kind = "dict"
    /\ TheScript.fn.returns.success = None
    /\ outcomes[2].ret.value.success
    /\ outcomes[2].engine_logs # <<>>
    /\ Len(outcomes[2].logs_at_return) = Len(outcomes[2].engine_logs) + 1

\* C20: the body of the operator's script is executed at most once per custom
\* engine instance, over any number of load_ground_truth, calculate_score and
\* score() calls, whether loading the script succeeds or fails.
C20_ScriptExecutedAtMostOnce == mem.execs <= 1

\* the script exists, its body runs, and it defines neither shape
NeitherShape ==
    /\ TheScript.exists /\ ~TheScript.body_raises
    /\ ~TheScript.has_class /\ ~TheScript.has_function

MustDefine == "Script must define 'CustomScorer' class or 'calculate_score' function"

\* C21: if the operator script defines neither a CustomScorer class nor a
\* calculate_score function, every score() call on the custom engine
\* instance, the first and every later one, returns success=false and its
\* logs contain the ERROR line saying the script must define 'CustomScorer'
\* class or 'calculate_score' function.
C21_NeitherShapeFailsEveryCall ==
    \A k \in DOMAIN outcomes :
        (NeitherShape /\ "prediction" \in DOMAIN outcomes[k]) =>
            /\ outcomes[k].raised = None
            /\ ~Get(outcomes[k].result).success
            /\ \E i \in DOMAIN outcomes[k].logs_at_return :
                  /\ outcomes[k].logs_at_return[i].text = MustDefine
                  /\ outcomes[k].logs_at_return[i].level = "ERROR"

---------------------------------------------------------------------------
(* Properties of get_scoring_engine *)

\* the engine type the dispatch rule selects for a competition, or "error"
Selected(competition) ==
    IF competition.metric_type = "CUSTOM"
    THEN (IF competition.scoring_script # None THEN "custom" ELSE "error")
    ELSE CASE competition.task_type = "CLASSIFICATION" -> "classification"
           [] competition.task_type = "DETECTION" -> "detection"
           [] competition.task_type = "SEGMENTATION" -> "segmentation"
           [] OTHER -> "error"

\* a ground-truth path is given, or the competition has a public ground truth
HasGroundTruth == argv.ground_truth_path # None \/ db.competition.public_ground_truth # None

---------------------------------------------------------------------------
(* Properties of score_submission *)

\* the tasks that found their submission
Existing(k) == outcomes[k].row # None

\* C23: whenever score_submission returns for an existing submission, the
\* submission's status is SUCCESS or FAILED (never PENDING or PROCESSING);
\* status is SUCCESS exactly when the engine result had success=true, and
\* then public_score is the result's score; when status is FAILED the stored
\* error_message is a non-empty explanatory string, whatever the failure
\* (engine failure result, configuration error raised by the factory,
\* NotImplementedError, or any other exception).
C23_NoSilentDrops ==
    \A k \in DOMAIN outcomes :
        Existing(k) =>
            LET row == Get(outcomes[k].row)
                succeeded == outcomes[k].result # None /\ Get(outcomes[k].result).success
            IN /\ row.status \in {"SUCCESS", "FAILED"}
               /\ (row.status = "SUCCESS") = succeeded
               /\ succeeded => row.public_score = Get(outcomes[k].result).score
               /\ row.status = "FAILED" => row.error_message.text # ""

\* the tasks of a classification competition that left the submission SUCCESS
ClassificationSucceeded(k) ==
    /\ Existing(k)
    /\ db.competition.task_type = "CLASSIFICATION"
    /\ db.competition.metric_type # "CUSTOM"
    /\ Get(outcomes[k].row).status = "SUCCESS"

\* C24: after score_submission succeeds for a classification submission, the
\* submission's stored all-metrics mapping (Submission.scores) is non-null
\* and contains the engine's values for the primary metric and for the other
\* computed metrics (at least ACCURACY and F1), with the stored ACCURACY equal
\* to public_score when ACCURACY is the primary metric.
C24_AllMetricsStored ==
    \A k \in DOMAIN outcomes :
        ClassificationSucceeded(k) =>
            LET row == Get(outcomes[k].row)
                metrics == Get(Get(outcomes[k].result).metrics)
            IN /\ row.scores # None
               /\ {"ACCURACY", "F1"} \subseteq DOMAIN Get(row.scores)
               /\ Get(row.scores).ACCURACY = metrics.ACCURACY
               /\ Get(row.scores).F1 = metrics.F1
               /\ db.competition.metric_type = "ACCURACY" =>
                     row.public_score = Some(round6m(Get(row.scores).ACCURACY))

---------------------------------------------------------------------------
(* Properties of score_private_submissions *)

\* the tasks run for the competition, which has a private ground truth
PrivateTask(k) ==
    /\ outcomes[k].competition_id = 1
    /\ outcomes[k].before.competition.private_ground_truth # None

\* the final selections with status SUCCESS before the task
FinalBefore(k) ==
    {i \in DOMAIN outcomes[k].before.submissions :
        /\ outcomes[k].before.submissions[i].is_final_selection
        /\ outcomes[k].before.submissions[i].status = "SUCCESS"}

RunSucceeded(run) == run.raised = None /\ Get(run.result).success

\* the score() calls of the task whose result had success=true
SucceededRuns(k) == {j \in DOMAIN outcomes[k].runs : RunSucceeded(outcomes[k].runs[j])}

\* C25: score_private_submissions, for a competition with private ground
\* truth, reuses one engine instance sequentially over exactly the
\* submissions that are final selections with status SUCCESS; it writes
\* private_score only on those whose scoring succeeded (equal to the engine
\* score), leaves status, public_score and is_final_selection of every
\* submission unchanged, sets private_scoring_completed to true, and returns
\* success=true exactly when no submission failed, with processed_count equal
\* to the number of private scores written.
C25_PrivateScoring ==
    \A k \in DOMAIN outcomes :
        PrivateTask(k) =>
            LET before == outcomes[k].before.submissions
                runs == outcomes[k].runs
            IN /\ outcomes[k].raised = None
               /\ {runs[j].submission : j \in DOMAIN runs} = FinalBefore(k)
               /\ Len(runs) = Cardinality(FinalBefore(k))
               /\ \A j \in DOMAIN runs :
                     (j > 1 /\ "calculate_score" \in Range(runs[1].trace)) =>
                         "load_ground_truth" \notin Range(runs[j].trace)
               /\ \A j \in SucceededRuns(k) :
                     db.submissions[runs[j].submission].private_score
                        = Get(runs[j].result).score
               /\ \A i \in DOMAIN before :
                     /\ (~\E j \in SucceededRuns(k) : runs[j].submission = i) =>
                           db.submissions[i].private_score = before[i].private_score
                     /\ db.submissions[i].status = before[i].status
                     /\ db.submissions[i].public_score = before[i].public_score
                     /\ db.submissions[i].is_final_selection = before[i].is_final_selection
               /\ db.competition.private_scoring_completed
               /\ outcomes[k].ret.success = (SucceededRuns(k) = DOMAIN runs)
               /\ outcomes[k].ret.processed_count = Cardinality(SucceededRuns(k))

---------------------------------------------------------------------------
(* Properties of the participant views *)

\* C28: in every reachable state, for each (user, competition) at most one
\* submission has is_final_selection == true, after any sequence and any
\* interleaving of set_final_selection requests by that user (the
\* clear-previous step and the set-new step of two concurrent requests may
\* interleave).
C28_AtMostOneFinalSelection ==
    \A user \in Users : Cardinality(FinalSelections(db, 1, user)) <= 1

\* the submissions a user created on a day
CreatedOn(user, day) ==
    {i \in DOMAIN db.submissions :
        db.submissions[i].user = user /\ db.submissions[i].submitted_at = day}

LimitErrors == {Msg("Daily upload limit reached", {}), Msg("Total upload limit reached", {})}

\* C29: in every reachable state, the number of submissions a user has in a
\* competition never exceeds the competition's total_upload_limit, and the
\* number created on one day never exceeds daily_upload_limit, for any
\* sequence and any interleaving of upload_prediction requests (the count
\* check and the submission creation of two concurrent requests may
\* interleave); a request rejected for a limit creates no submission.
C29_UploadLimits ==
    /\ \A user \in Users :
          /\ get_total_count(db, user) <= db.competition.total_upload_limit
          /\ \A day \in 1..MaxDays :
                Cardinality(CreatedOn(user, day)) <= db.competition.daily_upload_limit
    /\ \A k \in DOMAIN outcomes :
          outcomes[k].response.error \in LimitErrors => outcomes[k].submission = None

\* the uploads that created a submission: the header check was made on them
Prevalidated(k) == outcomes[k].submission # None

UploadedRow(k) == db.submissions[Get(outcomes[k].submission)]

\* the header of the uploaded file has every column the engine requires
HasEngineColumns(k) ==
    /\ UploadedRow(k).prediction_file.readable
    /\ Range(EngineRequired(db.competition))
          \subseteq Range(UploadedRow(k).prediction_file.df.columns)

\* C30: upload pre-validation agrees with the scoring engine's schema: a
\* prediction file whose header contains every column the competition's
\* engine requires (the columns auto-detected positionally from the ground
\* truth, plus `confidence` for detection) is not rejected by
\* upload_prediction for missing columns and its scoring task is queued with
\* status PENDING; a file rejected by the pre-validation gets status FAILED
\* with an error naming the missing columns and is never queued.
C30_PrevalidationAgrees ==
    \A k \in DOMAIN outcomes :
        Prevalidated(k) =>
            /\ HasEngineColumns(k) =>
                  /\ outcomes[k].response.success
                  /\ UploadedRow(k).status = "PENDING"
                  /\ Get(outcomes[k].submission) \in Range(db.queue)
            /\ ~outcomes[k].response.success =>
                  /\ UploadedRow(k).status = "FAILED"
                  /\ Get(outcomes[k].submission) \notin Range(db.queue)
                  /\ UploadedRow(k).prediction_file.readable =>
                        /\ UploadedRow(k).error_message.text = "Missing columns"
                        /\ UploadedRow(k).error_message.columns # {}

---------------------------------------------------------------------------
(* Properties of score_submission with a custom scoring script *)

CompetitionScript == Get(db.competition.scoring_script)

\* the tasks in which the engine's calculate_score was entered for a script
\* that defines the function calculate_score
FunctionTask(k) ==
    /\ db.competition.metric_type = "CUSTOM"
    /\ db.competition.scoring_script # None
    /\ CompetitionScript.exists /\ ~CompetitionScript.body_raises
    /\ ~CompetitionScript.has_class /\ CompetitionScript.has_function
    /\ "calculate_score" \in Range(outcomes[k].trace)

\* C18: when the calculate_score function of the operator's script raises an
\* exception with message m, score() returns success=false with an
\* error_message containing m, no exception is propagated, and
\* score_submission leaves the submission FAILED with an error_message
\* containing m.  (The message of the script's exception is "OperatorError".)
C18_FunctionRaises ==
    \A k \in DOMAIN outcomes :
        (FunctionTask(k) /\ CompetitionScript.fn.returns.kind = "raise") =>
            /\ outcomes[k].raised = None
            /\ ~Get(outcomes[k].result).success
            /\ Get(outcomes[k].result).error_message = Some(Msg("OperatorError", {}))
            /\ Get(outcomes[k].row).status = "FAILED"
            /\ Get(outcomes[k].row).error_message = Msg("OperatorError", {})

\* C19: a script defining calculate_score(prediction_df, ground_truth_df),
\* with these two parameters only, that returns ScoringResult(success=True,
\* score=s, metrics=m, logs=L) is scored successfully: score() returns
\* success=true with score s and metrics m and logs holding every line of L,
\* and score_submission leaves the submission SUCCESS with public_score s.
C19_TwoParameterFunction ==
    \A k \in DOMAIN outcomes :
        (/\ FunctionTask(k)
         /\ ~CompetitionScript.fn.accepts_kwargs
         /\ CompetitionScript.fn.returns.kind = "ScoringResult"
         /\ CompetitionScript.fn.returns.success = Some(TRUE)
         /\ CompetitionScript.fn.returns.logs # None) =>
            /\ outcomes[k].raised = None
            /\ Get(outcomes[k].result).success
            /\ Get(outcomes[k].result).score = CompetitionScript.fn.returns.score
            /\ Get(outcomes[k].result).metrics = CompetitionScript.fn.returns.metrics
            /\ Range(Get(CompetitionScript.fn.returns.logs))
                  \subseteq Range(Texts(outcomes[k].logs_at_return))
            /\ Get(outcomes[k].row).status = "SUCCESS"
            /\ Get(outcomes[k].row).public_score = CompetitionScript.fn.returns.score

====
